---- MODULE Spec2Model ----
\* Knowledge & retrieval core of calliope: the entity-relation graph store
\* (infra/storage/graph_store.py), the triplet review flow
\* (services/knowledge_service.py, ui_components/graph_view.py) and the
\* tiered retrieval of services/writing_service.py.
\*
\* Strings are sequences of characters so that strip(), the substring test
\* (`in`) and the ", " join are computed as the code computes them. The
\* characters of the Chinese relation words are written in pinyin:
\*   <<"fu","qin">> = fu qin (father), <<"wei","yu">> = wei yu (located at),
\*   <<"su","di">> = su di (sworn enemy), <<"fu">> = a substring of fu qin.
EXTENDS Integers, Sequences, FiniteSets, TLC

VARIABLES
    graph,      \* the project's graph snapshot on disk (knowledge/graph.json)
    pending,    \* session state: the pending triplets awaiting review
    chunks,     \* the project's vector index: a set of chunks with metadata
    last,       \* the last operation: its name, argument and result
    ops,        \* number of operations so far
    calls       \* the store calls in flight: per caller, where it is and what it loaded

vars == <<graph, pending, chunks, last, ops, calls>>

\* ------------------------------------------------------------------ bounds
\* Number of graph-store operations of one run.
MaxOps == 2

\* Number of review-flow operations of one run.
MaxReviewOps == 3

\* Number of operations of one retrieval run, and the highest chapter drafted.
MaxRetrieveOps == 5
MaxChapter == 10

\* Number of operations of one run over the snapshot file.
MaxStorageOps == 3

\* Number of operations of one run of context queries.
MaxContextOps == 3
MaxDraftOps == 3
MaxBibleOps == 3
MaxBlockingOps == 2
MaxQueries == 6
MaxSummaries == 9
MaxLabelOps == 3
MaxDocs == 4
MaxSimpleOps == 4
MaxScore == 2

\* Number of store operations completed before two callers overlap.
MaxConcurrentSetup == 1

\* ------------------------------------------------------------------ strings
Blank == << >>
Space == " "

RECURSIVE LStrip(_)
LStrip(s) == IF s = << >> THEN s
             ELSE IF Head(s) = Space THEN LStrip(Tail(s)) ELSE s

RECURSIVE RStrip(_)
RStrip(s) == IF s = << >> THEN s
             ELSE IF s[Len(s)] = Space THEN RStrip(SubSeq(s, 1, Len(s) - 1)) ELSE s

\* str.strip()
Strip(s) == RStrip(LStrip(s))

\* A membership test that compares the whole string instead of searching it.
EqualsWhole(sub, s) == sub = s

\* Python's `sub in s` on strings
Contains(sub, s) ==
    \E i \in 0..(Len(s) - Len(sub)) : SubSeq(s, i + 1, i + Len(sub)) = sub

\* f"{existing_relation}, {relation}"
JoinRelation(existing, relation) == existing \o <<",", Space>> \o relation

\* ------------------------------------------------------------------ inputs
Jia == <<"jia">>
Yi == <<"yi">>
Bing == <<"bing">>
Names == {Jia, Yi, Bing}

FuQin == <<"fu", "qin">>
Fu == <<"fu">>
WeiYu == <<"wei", "yu">>
SuDi == <<"su", "di">>
ShenFenShi == <<"shen", "fen", "shi">>
RelTexts == {FuQin, Fu, WeiYu, SuDi}

\* Well-formed triplets (source, relation, target) between two entities, and
\* one self-relation.
CleanTriplets ==
    {tr \in {<<s, r, t>> : s \in Names, r \in RelTexts, t \in Names} : tr[1] # tr[3]}
    \cup {<<Jia, SuDi, Jia>>}

\* Noisy extraction output: an empty field, a whitespace-only field, padding,
\* and an item that is not a 3-tuple.
NoisyTriplets ==
    { <<Blank, SuDi, Yi>>, <<Jia, Blank, Yi>>, <<Jia, SuDi, Blank>>,
      <<<<Space>>, SuDi, Yi>>, <<Jia, <<Space>>, Yi>>,
      <<<<Space, "jia">>, <<"su", "di", Space>>, Yi>>,
      <<Jia, SuDi>> }

Triplets == CleanTriplets \cup NoisyTriplets

\* Batches handed to the store: every single triplet, two relations of the
\* same two entities in one batch (the second from the other endpoint), and a
\* noisy item followed by a clean one.
Batches ==
    {<<t>> : t \in Triplets}
    \cup {<<t1, t2>> : t1 \in {<<Jia, FuQin, Yi>>, <<Jia, Fu, Yi>>},
                       t2 \in {<<Yi, r, Jia>> : r \in RelTexts}}
    \cup {<<t1, t2>> : t1 \in NoisyTriplets, t2 \in {<<Yi, WeiYu, Bing>>}}

\* ------------------------------------------------------------------ graph
\* An nx.Graph: a set of nodes and a set of undirected edges, each edge
\* carrying the orientation it was created with and its relation label.
EmptyGraph == [nodes |-> {}, edges |-> {}]

HasNode(G, n) == n \in G.nodes

EdgesBetween(G, a, b) == {e \in G.edges : {e.source, e.target} = {a, b}}

\* An edge lookup that sees only the orientation (a, b).
HasEdgeDirected(G, a, b) == \E e \in G.edges : e.source = a /\ e.target = b

\* G.has_edge(a, b): undirected, either orientation
HasEdge(G, a, b) == EdgesBetween(G, a, b) # {}

\* G[a][b].get('relation', '')
RelationOf(G, a, b) == (CHOOSE e \in EdgesBetween(G, a, b) : TRUE).relation

\* G.add_node(n, type="entity")
AddNode(G, n) == [G EXCEPT !.nodes = @ \cup {n}]

\* G.add_edge(s, t, relation=r) when no edge joins s and t
AddEdge(G, s, t, r) ==
    [G EXCEPT !.nodes = @ \cup {s, t},
              !.edges = @ \cup {[source |-> s, target |-> t, relation |-> r]}]

\* G[s][t]['relation'] = r
SetRelation(G, s, t, r) ==
    [G EXCEPT !.edges = {IF {e.source, e.target} = {s, t}
                           THEN [e EXCEPT !.relation = r] ELSE e : e \in @}]

\* An adjacency that follows edges from their source only.
NeighborsOutgoing(G, n) == {m \in G.nodes : \E e \in G.edges : e.source = n /\ e.target = m}

\* G.neighbors(n) / G[n]
Neighbors(G, n) == {m \in G.nodes : HasEdge(G, n, m)}

\* ------------------------------------------------------------------ store
\* A 3-tuple whose fields are all non-empty (`not source or not target or not relation`)
ValidTriplet(t) == Len(t) = 3 /\ t[1] # Blank /\ t[2] # Blank /\ t[3] # Blank

\* An upsert that overwrites the label of an existing edge.
UpsertTripletOverwrite(st, triplet) ==
    IF Len(triplet) # 3 THEN st
    ELSE IF triplet[1] = Blank \/ triplet[3] = Blank \/ triplet[2] = Blank THEN st
    ELSE
      LET source == Strip(triplet[1])
          target == Strip(triplet[3])
          relation == Strip(triplet[2])
          G2 == AddNode(AddNode(st.G, source), target)
      IN IF HasEdge(G2, source, target)
           THEN [G |-> SetRelation(G2, source, target, relation), updated |-> TRUE]
           ELSE [G |-> AddEdge(G2, source, target, relation), updated |-> TRUE]

\* An upsert that applies a triplet without looking for empty fields.
UpsertTripletNoEmptyCheck(st, triplet) ==
    IF Len(triplet) # 3 THEN st
    ELSE
      LET source == Strip(triplet[1])
          target == Strip(triplet[3])
          relation == Strip(triplet[2])
          G2 == AddNode(AddNode(st.G, source), target)
      IN IF HasEdge(G2, source, target)
           THEN [G |-> G2, updated |-> TRUE]
           ELSE [G |-> AddEdge(G2, source, target, relation), updated |-> TRUE]

\* update_graph_from_triplets: the body of the loop for one triplet.
\* st = [G |-> graph in memory, updated |-> flag]
UpsertTriplet(st, triplet) ==
    IF Len(triplet) # 3 THEN st
    ELSE IF triplet[1] = Blank \/ triplet[3] = Blank \/ triplet[2] = Blank THEN st
    ELSE
      LET source == Strip(triplet[1])
          target == Strip(triplet[3])
          relation == Strip(triplet[2])
          G0 == st.G
          G1 == IF HasNode(G0, source) THEN G0 ELSE AddNode(G0, source)
          G2 == IF HasNode(G1, target) THEN G1 ELSE AddNode(G1, target)
          nodesAdded == ~HasNode(G0, source) \/ ~HasNode(G1, target)
      IN IF HasEdge(G2, source, target)
           THEN LET existing_relation == RelationOf(G2, source, target)
                IN IF ~Contains(relation, existing_relation)
                     THEN [G |-> SetRelation(G2, source, target,
                                   IF existing_relation # Blank
                                     THEN JoinRelation(existing_relation, relation)
                                     ELSE relation),
                           updated |-> TRUE]
                     ELSE [G |-> G2, updated |-> st.updated \/ nodesAdded]
           ELSE [G |-> AddEdge(G2, source, target, relation), updated |-> TRUE]

RECURSIVE UpsertLoop(_, _)
UpsertLoop(st, triplets) ==
    IF triplets = << >> THEN st
    ELSE UpsertLoop(UpsertTriplet(st, Head(triplets)), Tail(triplets))

\* update_graph_from_triplets(project_root, triplets) on the loaded graph G:
\* the graph in memory after the loop, the flag returned, whether save_graph
\* was called, and the graph on disk afterwards.
UpdateGraphFromTriplets(G, triplets) ==
    LET st == UpsertLoop([G |-> G, updated |-> FALSE], triplets)
    IN [G |-> st.G, updated |-> st.updated, saved |-> st.updated,
        disk |-> IF st.updated THEN st.G ELSE G]

\* A removal that drops the node and leaves its edges behind.
RemoveNodeKeepEdges(G, node_id) ==
    IF HasNode(G, node_id)
      THEN [disk |-> [nodes |-> G.nodes \ {node_id}, edges |-> G.edges],
            ret |-> TRUE, saved |-> TRUE]
      ELSE [disk |-> G, ret |-> FALSE, saved |-> FALSE]

\* remove_node(project_root, node_id)
RemoveNode(G, node_id) ==
    IF HasNode(G, node_id)
      THEN [disk |-> [nodes |-> G.nodes \ {node_id},
                      edges |-> {e \in G.edges : e.source # node_id /\ e.target # node_id}],
            ret |-> TRUE, saved |-> TRUE]
      ELSE [disk |-> G, ret |-> FALSE, saved |-> FALSE]

\* nx.density(G) as the fraction <<numerator, denominator>>
Density(G) ==
    LET n == Cardinality(G.nodes)
        m == Cardinality(G.edges)
    IN IF m = 0 \/ n <= 1 THEN <<0, 1>> ELSE <<2 * m, n * (n - 1)>>

\* get_graph_stats(project_root)
GetGraphStats(G) ==
    [node_count |-> Cardinality(G.nodes),
     edge_count |-> Cardinality(G.edges),
     density |-> IF Cardinality(G.nodes) > 0 THEN Density(G) ELSE <<0, 1>>]

\* ------------------------------------------------------------------ snapshot file
\* What knowledge/graph.json holds: nothing (no file), bytes that do not parse
\* as a graph, or the graph last written in full.
MissingFile == [file |-> "missing"]
CorruptFile == [file |-> "corrupt"]

IsSnapshot(f) == "nodes" \in DOMAIN f

\* load_graph(project_root): the graph returned and whether the call raised.
\* No file: nx.Graph(). A file that fails to open or parse: the exception is
\* logged and nx.Graph() is returned.
LoadGraph(f) ==
    IF IsSnapshot(f) THEN [G |-> f, raised |-> FALSE]
    ELSE [G |-> EmptyGraph, raised |-> FALSE]

\* How one save_graph call goes: it writes the file in full, it raises before
\* the file is opened (node_link_data, makedirs or open), or it raises after
\* open(path, 'w') truncated the file and before json.dump finished.
SaveOutcomes == {"ok", "fails_before_write", "fails_part_way"}

\* save_graph(project_root, G): the file afterwards and whether the call
\* raised (every exception is logged and swallowed).
SaveGraph(f, G, outcome) ==
    [file |-> IF outcome = "ok" THEN G
              ELSE IF outcome = "fails_before_write" THEN f ELSE CorruptFile,
     raised |-> FALSE]

\* update_graph_from_triplets(project_root, triplets) on the file f: load,
\* loop, save when updated, return updated.
UpdateGraphFromTripletsOnFile(f, triplets, outcome) ==
    LET loaded == LoadGraph(f)
        r == UpdateGraphFromTriplets(loaded.G, triplets)
        saved == SaveGraph(f, r.G, outcome)
    IN IF loaded.raised
         THEN [file |-> f, mem |-> EmptyGraph, ret |-> FALSE, raised |-> TRUE]
       ELSE IF r.updated
         THEN [file |-> saved.file, mem |-> r.G, ret |-> ~saved.raised,
               raised |-> saved.raised]
         ELSE [file |-> f, mem |-> r.G, ret |-> FALSE, raised |-> FALSE]

\* remove_node(project_root, node_id) on the file f
RemoveNodeOnFile(f, node_id, outcome) ==
    LET loaded == LoadGraph(f)
        r == RemoveNode(loaded.G, node_id)
        saved == SaveGraph(f, r.disk, outcome)
    IN IF loaded.raised
         THEN [file |-> f, mem |-> EmptyGraph, ret |-> FALSE, raised |-> TRUE]
       ELSE IF r.ret
         THEN [file |-> saved.file, mem |-> r.disk, ret |-> ~saved.raised,
               raised |-> saved.raised]
         ELSE [file |-> f, mem |-> loaded.G, ret |-> FALSE, raised |-> FALSE]

\* ------------------------------------------------------------------ multi-hop
\* Nodes within `radius` hops of the nodes in S (breadth-first).
RECURSIVE Within(_, _, _)
Within(G, S, radius) ==
    IF radius = 0 THEN S
    ELSE Within(G, S \cup UNION {Neighbors(G, n) : n \in S}, radius - 1)

\* nx.ego_graph(G, entity, radius): the subgraph induced by the neighbourhood
EgoGraph(G, entity, radius) ==
    LET ns == Within(G, {entity}, radius)
    IN [nodes |-> ns,
        edges |-> {e \in G.edges : e.source \in ns /\ e.target \in ns}]

\* nx.compose(H1, H2)
Compose(H1, H2) == [nodes |-> H1.nodes \cup H2.nodes, edges |-> H1.edges \cup H2.edges]

RECURSIVE CombinedSubgraph(_, _, _)
CombinedSubgraph(G, entities, radius) ==
    IF entities = << >> THEN EmptyGraph
    ELSE LET rest == CombinedSubgraph(G, Tail(entities), radius)
         IN IF HasNode(G, Head(entities))
              THEN Compose(EgoGraph(G, Head(entities), radius), rest)
              ELSE rest

\* The iteration `for u, v, d in combined_subgraph.edges(data=True)` with the
\* visited_edges check; the order of iteration is networkx's, any order here.
RECURSIVE RenderEdges(_, _)
RenderEdges(todo, visited) ==
    IF todo = {} THEN << >>
    ELSE LET e == CHOOSE x \in todo : TRUE
             edge_key == {e.source, e.target}
         IN IF edge_key \in visited
              THEN RenderEdges(todo \ {e}, visited)
              ELSE <<[pair |-> edge_key, relation |-> e.relation]>>
                   \o RenderEdges(todo \ {e}, visited \cup {edge_key})

\* get_multi_hop_context(project_root, entities, radius): the lines of the
\* returned text, one record per line (the faction annotation of a line comes
\* from a third-party partition and is left out; << >> is the empty string).
GetMultiHopContext(G, entities, radius) ==
    IF Cardinality(G.nodes) = 0 THEN << >>
    ELSE LET combined_subgraph == CombinedSubgraph(G, entities, radius)
         IN IF Cardinality(combined_subgraph.nodes) = 0 THEN << >>
            ELSE RenderEdges(combined_subgraph.edges, {})

\* ------------------------------------------------------------------ communities
\* The nodes joined to n by a path.
ComponentOf(G, n) == Within(G, {n}, Cardinality(G.nodes))

\* What the partition library does with the graph: it raises, or it answers
\* with a partition of the nodes. On a graph without edges no node is moved
\* out of its own community; on a graph with edges the communities of the
\* answer are the library's choice (here the connected components).
PartitionOutcomes == {"raises", "partition"}

\* detect_communities(project_root): the communities of the mapping returned
\* (its keys number them), {} for the empty mapping.
DetectCommunities(G, outcome) ==
    IF Cardinality(G.nodes) < 2 THEN {}
    ELSE IF outcome = "raises" THEN {}
    ELSE IF G.edges = {} THEN {{n} : n \in G.nodes}
    ELSE {ComponentOf(G, n) : n \in G.nodes}

\* ------------------------------------------------------------------ conflicts
asymmetric_relations == {FuQin, <<"mu", "qin">>, <<"shang", "ji">>, <<"zhu", "ren">>, WeiYu}

LogicalReversal == "logical_reversal"
AttributeConflict == "attribute_conflict"

HasAsymmetricKeyword(r) == \E keyword \in asymmetric_relations : Contains(keyword, r)

\* One attribute-conflict report per clashing neighbour of s.
RECURSIVE RenderConflicts(_, _, _, _)
RenderConflicts(s, r, t, neighbours) ==
    IF neighbours = {} THEN << >>
    ELSE LET neighbor == CHOOSE x \in neighbours : TRUE
         IN <<[type |-> AttributeConflict, triplet |-> <<s, r, t>>,
               existing |-> <<s, r, neighbor>>]>>
            \o RenderConflicts(s, r, t, neighbours \ {neighbor})

\* A detector without the exact-duplicate skip.
ConflictsOfTripletNoSkip(G, triplet) ==
    IF Len(triplet) # 3 THEN << >>
    ELSE
      LET s == triplet[1]
          r == triplet[2]
          t == triplet[3]
      IN (IF HasAsymmetricKeyword(r) /\ HasEdge(G, t, s)
               /\ HasAsymmetricKeyword(RelationOf(G, t, s))
            THEN <<[type |-> LogicalReversal, triplet |-> <<s, r, t>>,
                    existing |-> <<t, RelationOf(G, t, s), s>>]>>
            ELSE << >>)
         \o (IF (Contains(WeiYu, r) \/ Contains(ShenFenShi, r)) /\ HasNode(G, s)
               THEN RenderConflicts(s, r, t,
                      {neighbor \in Neighbors(G, s) :
                          r = RelationOf(G, s, neighbor) /\ neighbor # t})
               ELSE << >>)

\* The reports one candidate adds, in the order the code appends them.
ConflictsOfTriplet(G, triplet) ==
    IF Len(triplet) # 3 THEN << >>
    ELSE
      LET s == triplet[1]
          r == triplet[2]
          t == triplet[3]
          reversal ==
            IF HasAsymmetricKeyword(r) /\ HasEdge(G, t, s)
                 /\ HasAsymmetricKeyword(RelationOf(G, t, s))
              THEN <<[type |-> LogicalReversal, triplet |-> <<s, r, t>>,
                      existing |-> <<t, RelationOf(G, t, s), s>>]>>
              ELSE << >>
          clashing ==
            IF (Contains(WeiYu, r) \/ Contains(ShenFenShi, r)) /\ HasNode(G, s)
              THEN {neighbor \in Neighbors(G, s) :
                        r = RelationOf(G, s, neighbor) /\ neighbor # t}
              ELSE {}
          exclusive == RenderConflicts(s, r, t, clashing)
      IN IF HasEdge(G, s, t) /\ Contains(r, RelationOf(G, s, t)) THEN << >>
         ELSE reversal \o exclusive

RECURSIVE DetectLoop(_, _)
DetectLoop(G, new_triplets) ==
    IF new_triplets = << >> THEN << >>
    ELSE ConflictsOfTriplet(G, Head(new_triplets)) \o DetectLoop(G, Tail(new_triplets))

\* detect_triplet_conflicts(project_root, new_triplets)
DetectTripletConflicts(G, new_triplets) == DetectLoop(G, new_triplets)

\* src/graph_store_manager.py, detect_triplet_conflicts: the loop body for one
\* candidate. `for s, r, t in new_triplets` raises on an item that is not a
\* 3-tuple, and G.neighbors(s) raises on a source that is not a node.
ManagerConflictsOfTriplet(G, triplet) ==
    IF Len(triplet) # 3 THEN [conflicts |-> << >>, raised |-> TRUE]
    ELSE
      LET s == triplet[1]
          r == triplet[2]
          t == triplet[3]
          reversal ==
            IF HasAsymmetricKeyword(r) /\ HasEdge(G, t, s)
                 /\ HasAsymmetricKeyword(RelationOf(G, t, s))
              THEN <<[type |-> LogicalReversal, triplet |-> <<s, r, t>>,
                      existing |-> <<t, RelationOf(G, t, s), s>>]>>
              ELSE << >>
          attribute == Contains(WeiYu, r) \/ Contains(ShenFenShi, r)
      IN IF HasEdge(G, s, t) /\ Contains(r, RelationOf(G, s, t))
           THEN [conflicts |-> << >>, raised |-> FALSE]
         ELSE IF attribute /\ ~HasNode(G, s)
           THEN [conflicts |-> reversal, raised |-> TRUE]
         ELSE IF attribute
           THEN [conflicts |-> reversal \o RenderConflicts(s, r, t,
                                 {neighbor \in Neighbors(G, s) :
                                     r = RelationOf(G, s, neighbor) /\ neighbor # t}),
                 raised |-> FALSE]
         ELSE [conflicts |-> reversal, raised |-> FALSE]

\* src/graph_store_manager.py, detect_triplet_conflicts(collection_name,
\* new_triplets): the reports collected and whether the call raised (the
\* loop ends at the first candidate that raises).
RECURSIVE ManagerDetectTripletConflicts(_, _)
ManagerDetectTripletConflicts(G, new_triplets) ==
    IF new_triplets = << >> THEN [conflicts |-> << >>, raised |-> FALSE]
    ELSE LET head == ManagerConflictsOfTriplet(G, Head(new_triplets))
             rest == ManagerDetectTripletConflicts(G, Tail(new_triplets))
         IN IF head.raised THEN head
            ELSE [conflicts |-> head.conflicts \o rest.conflicts, raised |-> rest.raised]

\* ------------------------------------------------------------------ vector index
\* A chunk of the index: its text and the metadata keys the filters read
\* (NoValue for a key the chunk does not carry).
NoValue == "none"

ChapterSummaryChunk(id, text, chapter_index) ==
    [id |-> id, text |-> text, document_type |-> "chapter_summary",
     has_chapter_index |-> TRUE, chapter_index |-> chapter_index,
     source |-> "chapter_" \o ToString(chapter_index)]

WorldBibleChunk(id, text) ==
    [id |-> id, text |-> text, document_type |-> NoValue,
     has_chapter_index |-> FALSE, chapter_index |-> 0, source |-> "world_bible"]

\* index_text(project_root, text, text_splitter, metadata): empty or
\* whitespace-only text is skipped, a failing add_texts is logged and
\* swallowed; the splitter is taken to return the text as one chunk.
IndexText(index, text, chunk, add_ok) ==
    IF text = Blank \/ Strip(text) = Blank THEN index
    ELSE IF add_ok THEN index \cup {chunk} ELSE index

\* The filters of retrieve_for_draft, as predicates on a chunk.
\* A strong filter that reaches back two chapters instead of three.
StrongFilterLastTwo(current_idx, c) ==
    /\ c.document_type = "chapter_summary"
    /\ c.has_chapter_index
    /\ c.chapter_index >= (IF current_idx - 2 > 1 THEN current_idx - 2 ELSE 1)
    /\ c.chapter_index < current_idx

StrongFilter(current_idx, c) ==
    /\ c.document_type = "chapter_summary"
    /\ c.has_chapter_index
    /\ c.chapter_index >= (IF current_idx - 3 > 1 THEN current_idx - 3 ELSE 1)
    /\ c.chapter_index < current_idx

\* A weak filter that starts one chapter too late and so overlaps the strong one.
WeakFilterOverlapping(current_idx, c) ==
    /\ c.document_type = "chapter_summary"
    /\ c.has_chapter_index
    /\ c.chapter_index < (IF current_idx - 2 > 1 THEN current_idx - 2 ELSE 1)

WeakFilter(current_idx, c) ==
    /\ c.document_type = "chapter_summary"
    /\ c.has_chapter_index
    /\ c.chapter_index < (IF current_idx - 3 > 1 THEN current_idx - 3 ELSE 1)

BibleFilter(c) == c.source = "world_bible"

\* The texts of a set of chunks, in the order the similarity search ranks
\* them (the ranking is the embedding model's; any order here).
RECURSIVE Ranked(_)
Ranked(cs) ==
    IF cs = {} THEN << >>
    ELSE LET c == CHOOSE x \in cs : TRUE IN <<c.text>> \o Ranked(cs \ {c})

Take(seq, k) == SubSeq(seq, 1, IF Len(seq) < k THEN Len(seq) ELSE k)

\* retrieve_context(project_root, query, recall_k, re_ranker, rerank_k,
\* filter_dict) on the chunks the filter matches.
RetrieveContext(matching, recall_k, rerank_k) == Take(Take(Ranked(matching), recall_k), rerank_k)

\* No re-ranker is configured, or one that gives the i-th recalled text the
\* score scores[i].
NoReRanker == [kind |-> "none", scores |-> << >>]
ReRanker(scores) == [kind |-> "model", scores |-> scores]

\* sorted(zip(retrieved_docs, scores), key=lambda x: x[1], reverse=True):
\* by descending score, texts of equal score staying in recall order.
RECURSIVE InsertByScore(_, _)
InsertByScore(ranked, pair) ==
    IF ranked = << >> THEN <<pair>>
    ELSE IF Head(ranked)[2] >= pair[2]
      THEN <<Head(ranked)>> \o InsertByScore(Tail(ranked), pair)
      ELSE <<pair>> \o ranked

\* A re-ranking that leaves the recall order as it is.
RankedDocsKeepRecallOrder(docs_with_scores) == docs_with_scores

RECURSIVE RankedDocsWithScores(_)
RankedDocsWithScores(docs_with_scores) ==
    IF docs_with_scores = << >> THEN << >>
    ELSE InsertByScore(
           RankedDocsWithScores(SubSeq(docs_with_scores, 1, Len(docs_with_scores) - 1)),
           docs_with_scores[Len(docs_with_scores)])

\* retrieve_context(project_root, query, recall_k, re_ranker, rerank_k) on
\* the list the similarity search would return for an unbounded k.
RetrieveContextReRanked(search_results, recall_k, re_ranker, rerank_k) ==
    LET retrieved_docs == Take(search_results, recall_k)
    IN IF re_ranker.kind = "model" /\ retrieved_docs # << >>
         THEN LET ranked_docs_with_scores ==
                    RankedDocsWithScores([i \in DOMAIN retrieved_docs |->
                                            <<retrieved_docs[i], re_ranker.scores[i]>>])
              IN [i \in DOMAIN Take(ranked_docs_with_scores, rerank_k) |->
                     ranked_docs_with_scores[i][1]]
         ELSE Take(retrieved_docs, rerank_k)

\* ------------------------------------------------------------------ retrieval
GraphTier == "graph"
StrongTier == "strong"
WeakTier == "weak"
BibleTier == "bible"

\* str.lower(): the characters of the model are caseless.
Lower(text) == text

RECURSIVE SetToSeq(_)
SetToSeq(S) ==
    IF S = {} THEN << >>
    ELSE LET x == CHOOSE y \in S : TRUE IN <<x>> \o SetToSeq(S \ {x})

\* [node for node in list(G.nodes()) if node.lower() in section_to_write.lower()]
MentionedEntities(G, section_to_write) ==
    SetToSeq({node \in G.nodes : Contains(Lower(node), Lower(section_to_write))})

\* What the calls of one retrieval do: each either answers or raises.
\* graph: "ok", "load_raises" (load_graph or the scan of its nodes raises) or
\* "context_raises" (get_multi_hop_context raises).
AllOk == [graph |-> "ok", strong |-> "ok", weak_rewrite |-> "ok", weak |-> "ok",
          bible_rewrite |-> "ok", bible |-> "ok"]

Envs ==
    {AllOk}
    \cup {[AllOk EXCEPT !.graph = v] : v \in {"load_raises", "context_raises"}}
    \cup {[AllOk EXCEPT !.strong = "raises"], [AllOk EXCEPT !.weak_rewrite = "raises"],
          [AllOk EXCEPT !.weak = "raises"], [AllOk EXCEPT !.bible_rewrite = "raises"],
          [AllOk EXCEPT !.bible = "raises"]}
    \cup {[AllOk EXCEPT !.strong = "raises", !.bible = "raises"]}

\* 1. graph tier: the block it appends, and whether mentioned_entities was
\* bound before the try block was left.
GraphContext(G, section_to_write, env) ==
    IF env.graph = "load_raises"
      THEN [docs |-> << >>, bound |-> FALSE, mentioned_entities |-> << >>]
      ELSE LET mentioned_entities == MentionedEntities(G, section_to_write)
               raw_graph_text == GetMultiHopContext(G, mentioned_entities, 2)
           IN [docs |-> IF mentioned_entities # << >> /\ env.graph = "ok"
                              /\ raw_graph_text # << >>
                          THEN <<[tier |-> GraphTier, body |-> raw_graph_text]>>
                          ELSE << >>,
               bound |-> TRUE,
               mentioned_entities |-> mentioned_entities]

\* 2. strong memory: the summaries of the last three chapters
StrongMemory(index, current_idx, env) ==
    IF env.strong = "raises" THEN << >>
    ELSE LET recent_summaries ==
               RetrieveContext({c \in index : StrongFilter(current_idx, c)}, 10, 5)
         IN IF recent_summaries # << >>
              THEN <<[tier |-> StrongTier, body |-> recent_summaries]>>
              ELSE << >>

\* 3. weak memory: reads mentioned_entities, which is unbound when the graph
\* tier raised before binding it (the NameError is caught by this tier's except)
WeakMemory(index, current_idx, graph_tier, env) ==
    IF current_idx > 3
      THEN IF ~graph_tier.bound \/ env.weak_rewrite = "raises" \/ env.weak = "raises"
             THEN << >>
             ELSE LET rag_results ==
                        RetrieveContext({c \in index : WeakFilter(current_idx, c)}, 20, 5)
                  IN IF rag_results # << >>
                       THEN <<[tier |-> WeakTier, body |-> rag_results]>>
                       ELSE << >>
      ELSE << >>

\* 4. world bible
BibleContext(index, env) ==
    IF env.bible_rewrite = "raises" \/ env.bible = "raises" THEN << >>
    ELSE LET bible_results == RetrieveContext({c \in index : BibleFilter(c)}, 15, 5)
         IN IF bible_results # << >>
              THEN <<[tier |-> BibleTier, body |-> bible_results]>>
              ELSE << >>

\* A retrieval that appends the bible block before the weak-memory block.
RetrieveForDraftBibleFirst(G, index, section_to_write, drafting_index, env) ==
    LET current_idx == drafting_index + 1
        graph_tier == GraphContext(G, section_to_write, env)
    IN graph_tier.docs
       \o StrongMemory(index, current_idx, env)
       \o BibleContext(index, env)
       \o WeakMemory(index, current_idx, graph_tier, env)

\* WritingService.retrieve_for_draft(state, full_config): all_context_docs
RetrieveForDraft(G, index, section_to_write, drafting_index, env) ==
    LET current_idx == drafting_index + 1
        graph_tier == GraphContext(G, section_to_write, env)
    IN graph_tier.docs
       \o StrongMemory(index, current_idx, env)
       \o WeakMemory(index, current_idx, graph_tier, env)
       \o BibleContext(index, env)

\* ------------------------------------------------------------------ review
\* What the extraction chain answers: it raises, returns something that is
\* not a list, or returns a list of items.
RaisesResponse == [kind |-> "raises", items |-> << >>]
NotAListResponse == [kind |-> "not_a_list", items |-> << >>]
ListResponse(items) == [kind |-> "list", items |-> items]
\* Output the JSON parser of the chain cannot parse: chain.invoke raises.
MalformedResponse == [kind |-> "malformed", items |-> << >>]
\* A JSON object instead of a list; iterating it yields its keys.
DictResponse == [kind |-> "not_a_list", items |-> <<<<"error">>>>]

Responses ==
    {RaisesResponse, NotAListResponse, MalformedResponse, DictResponse, ListResponse(<< >>),
     ListResponse(<<<<Jia, FuQin, Yi>>>>),
     ListResponse(<<<<Jia, FuQin, Yi>>, <<Yi, SuDi, Bing>>>>),
     ListResponse(<<<<Yi, FuQin, Jia>>, <<Jia, SuDi>>>>),
     ListResponse(<<<<Jia, SuDi>>>>)}

InSeq(x, seq) == \E i \in DOMAIN seq : seq[i] = x

RECURSIVE AppendNew(_, _)
AppendNew(current_pending, triplets) ==
    IF triplets = << >> THEN current_pending
    ELSE AppendNew(IF InSeq(Head(triplets), current_pending)
                     THEN current_pending
                     ELSE Append(current_pending, Head(triplets)),
                   Tail(triplets))

\* An extraction that merges what it extracted straight into the graph.
UpdateGraphAutoMerge(G, current_pending, text, response) ==
    IF text = Blank \/ response.kind # "list" \/ response.items = << >>
      THEN [graph |-> G, pending |-> current_pending, graph_updated |-> FALSE]
      ELSE [graph |-> UpdateGraphFromTriplets(G, response.items).disk,
            pending |-> current_pending, graph_updated |-> TRUE]

\* An extraction that appends whatever truthy answer the chain gives, list or not.
UpdateGraphNoListCheck(G, current_pending, text, response) ==
    IF text = Blank
      THEN [graph |-> G, pending |-> current_pending, graph_updated |-> FALSE]
    ELSE IF response.kind \in {"list", "not_a_list"} /\ response.items # << >>
      THEN [graph |-> G, pending |-> AppendNew(current_pending, response.items),
            graph_updated |-> TRUE]
      ELSE [graph |-> G, pending |-> current_pending, graph_updated |-> FALSE]

\* KnowledgeService.update_graph(state): the graph on disk, the pending list
\* of the state and the graph_updated flag afterwards.
UpdateGraph(G, current_pending, text, response) ==
    IF text = Blank
      THEN [graph |-> G, pending |-> current_pending, graph_updated |-> FALSE]
    ELSE IF response.kind = "list" /\ response.items # << >>
      THEN [graph |-> G, pending |-> AppendNew(current_pending, response.items),
            graph_updated |-> TRUE]
      ELSE [graph |-> G, pending |-> current_pending, graph_updated |-> FALSE]

\* The rows of the review table: the pending items that are 3-tuples.
RECURSIVE ReviewRows(_)
ReviewRows(items) ==
    IF items = << >> THEN << >>
    ELSE (IF Len(Head(items)) = 3 THEN <<Head(items)>> ELSE << >>) \o ReviewRows(Tail(items))

\* ------------------------------------------------------------------ operations
NodeIds == Names \cup {Blank}

EntityLists == {<<n>> : n \in Names} \cup {<<Jia, Yi>>, <<Yi, Bing>>, << >>}

Radii == {1, 2}

\* Candidate lists shown for review: one candidate between two entities, a
\* malformed item, and a list of two.
CandidateLists ==
    {<<tr>> : tr \in {c \in CleanTriplets : c[1] # c[3] /\ c[2] # Fu}}
    \cup {<<<<Jia, SuDi>>>>, <<<<Yi, FuQin, Jia>>, <<Jia, WeiYu, Bing>>>>}

BibleText == <<"bible">>
Texts == {Blank, BibleText}
\* Two successive versions of the world bible.
BibleVersions == {BibleText, <<"bible", "v2">>}

SummaryText(chapter_index) == <<"summary", ToString(chapter_index)>>

\* The chapters whose summaries get indexed, by drafting_index.
SummaryDraftingIndexes == {0, 4, 8}

Sections == {<<"jia", "yi">>, <<"bing">>}

DraftingIndexes == 0..(MaxChapter - 1)

RetrievalBatches == {<<<<Jia, SuDi, Yi>>>>}

\* The id of a new chunk: unique among the chunks of the index (the copy
\* number of its text stands for the uuid the store assigns).
NewId(index, text) == Cardinality({c \in index : c.text = text}) + 1

\* The callers of the store (two sessions, or two handlers of one session).
Callers == {"a", "b"}

NoRequest == [kind |-> "none"]

\* A caller with no call in flight.
Idle == [pc |-> "idle", request |-> NoRequest, G |-> EmptyGraph, start |-> EmptyGraph]

NoCalls == [c \in Callers |-> Idle]

Init ==
    /\ calls = NoCalls
    /\ graph = EmptyGraph
    /\ pending = << >>
    /\ chunks = {}
    /\ last = [op |-> "init", arg |-> << >>, ret |-> FALSE, saved |-> FALSE]
    /\ ops = 0

\* UpsertRelations: update_graph_from_triplets / add_manual_edge
UpsertRelations(triplets) ==
    /\ LET r == UpdateGraphFromTriplets(graph, triplets)
       IN /\ graph' = r.disk
          /\ last' = [op |-> "upsert", arg |-> triplets, ret |-> r.updated, saved |-> r.saved]
    /\ UNCHANGED <<pending, chunks>>

\* RemoveEntity: remove_node
RemoveEntity(node_id) ==
    /\ LET r == RemoveNode(graph, node_id)
       IN /\ graph' = r.disk
          /\ last' = [op |-> "remove", arg |-> node_id, ret |-> r.ret, saved |-> r.saved]
    /\ UNCHANGED <<pending, chunks>>

\* Stats: get_graph_stats
Stats ==
    /\ last' = [op |-> "stats", arg |-> << >>, ret |-> GetGraphStats(graph), saved |-> FALSE]
    /\ UNCHANGED <<graph, pending, chunks>>

\* MultiHopContext: get_multi_hop_context
MultiHopContext(entities, radius) ==
    /\ last' = [op |-> "multihop", arg |-> <<entities, radius>>,
                ret |-> GetMultiHopContext(graph, entities, radius), saved |-> FALSE]
    /\ UNCHANGED <<graph, pending, chunks>>

\* DetectConflicts: detect_triplet_conflicts
DetectConflicts(new_triplets) ==
    /\ last' = [op |-> "conflicts", arg |-> new_triplets,
                ret |-> DetectTripletConflicts(graph, new_triplets), saved |-> FALSE]
    /\ UNCHANGED <<graph, pending, chunks>>

\* The "scan text" step: KnowledgeService.update_graph on state.text_to_extract
ExtractRelations(text, response) ==
    /\ LET r == UpdateGraph(graph, pending, text, response)
       IN /\ graph' = r.graph
          /\ pending' = r.pending
          /\ last' = [op |-> "update_graph", arg |-> <<text, response>>,
                      ret |-> r.graph_updated, saved |-> FALSE]
    /\ UNCHANGED chunks

\* KnowledgeService.sync_bible(state, content, full_config)
SyncBible(content, add_ok, response) ==
    IF content = Blank
      THEN /\ last' = [op |-> "sync_bible", arg |-> <<content, response>>,
                       ret |-> FALSE, saved |-> FALSE]
           /\ UNCHANGED <<graph, pending, chunks>>
      ELSE LET r == UpdateGraph(graph, pending, content, response)
           IN /\ chunks' = IndexText(chunks, content,
                                     WorldBibleChunk(NewId(chunks, content), content), add_ok)
              /\ graph' = r.graph
              /\ pending' = r.pending
              /\ last' = [op |-> "sync_bible", arg |-> <<content, response>>,
                          ret |-> TRUE, saved |-> FALSE]

\* The "confirm merge" button of the review table (graph_view.py)
ApproveMerge ==
    /\ pending # << >>
    /\ LET approved_triplets == ReviewRows(pending)
           r == UpdateGraphFromTriplets(graph, approved_triplets)
       IN IF approved_triplets # << >>
            THEN /\ graph' = r.disk
                 /\ pending' = << >>
                 /\ last' = [op |-> "approve", arg |-> approved_triplets,
                             ret |-> r.updated, saved |-> r.saved]
            ELSE /\ last' = [op |-> "approve", arg |-> approved_triplets,
                             ret |-> FALSE, saved |-> FALSE]
                 /\ UNCHANGED <<graph, pending>>
    /\ UNCHANGED chunks

\* The "discard" button of the review table
RejectPending ==
    /\ pending # << >>
    /\ pending' = << >>
    /\ last' = [op |-> "reject", arg |-> << >>, ret |-> FALSE, saved |-> FALSE]
    /\ UNCHANGED <<graph, chunks>>

\* The manual edge form: add_manual_edge when the three fields are filled
AddManualEdge(triplet) ==
    /\ LET r == UpdateGraphFromTriplets(graph, <<triplet>>)
       IN IF ValidTriplet(triplet)
            THEN /\ graph' = r.disk
                 /\ last' = [op |-> "manual", arg |-> triplet, ret |-> r.updated,
                             saved |-> r.saved]
            ELSE /\ graph' = graph
                 /\ last' = [op |-> "manual", arg |-> triplet, ret |-> FALSE,
                             saved |-> FALSE]
    /\ UNCHANGED <<pending, chunks>>

\* The "clear graph" button: save_graph(collection_name, nx.Graph())
ClearGraph ==
    /\ graph' = EmptyGraph
    /\ last' = [op |-> "clear", arg |-> << >>, ret |-> TRUE, saved |-> TRUE]
    /\ UNCHANGED <<pending, chunks>>

\* WritingService._index_chapter_summary for the chapter drafting_index + 1
IndexChapterSummary(drafting_index, summary_text, add_ok) ==
    /\ chunks' = IndexText(chunks, summary_text,
                           ChapterSummaryChunk(NewId(chunks, summary_text), summary_text, drafting_index + 1),
                           add_ok)
    /\ last' = [op |-> "index_summary", arg |-> drafting_index, ret |-> add_ok, saved |-> FALSE]
    /\ UNCHANGED <<graph, pending>>

\* RetrieveForChapter: WritingService.retrieve_for_draft
RetrieveForChapter(section_to_write, drafting_index, env) ==
    /\ last' = [op |-> "retrieve", arg |-> <<section_to_write, drafting_index, env>>,
                ret |-> RetrieveForDraft(graph, chunks, section_to_write, drafting_index, env),
                saved |-> FALSE]
    /\ UNCHANGED <<graph, pending, chunks>>

\* The batches and nodes used over the snapshot file.
StorageBatches == {<<<<Jia, SuDi, Yi>>>>, <<<<Yi, WeiYu, Bing>>>>, <<<<Jia, Blank, Yi>>>>}

StorageNodeIds == {Yi, Bing}

\* A run over the snapshot file starts with no file.
InitStorage ==
    /\ calls = NoCalls
    /\ graph = MissingFile
    /\ pending = << >>
    /\ chunks = {}
    /\ last = [op |-> "init", arg |-> << >>, ret |-> FALSE, saved |-> FALSE,
               raised |-> FALSE, mem |-> EmptyGraph]
    /\ ops = 0

\* A caller loads the graph: load_graph
LoadSnapshot ==
    /\ LET r == LoadGraph(graph)
       IN last' = [op |-> "load", arg |-> << >>, ret |-> r.G, saved |-> FALSE,
                   raised |-> r.raised, mem |-> r.G]
    /\ UNCHANGED <<graph, pending, chunks>>

\* UpsertRelations with a save that goes as `outcome` says
UpsertRelationsOnFile(triplets, outcome) ==
    /\ LET r == UpdateGraphFromTripletsOnFile(graph, triplets, outcome)
       IN /\ graph' = r.file
          /\ last' = [op |-> "upsert", arg |-> <<triplets, outcome>>, ret |-> r.ret,
                      saved |-> r.mem # LoadGraph(graph).G, raised |-> r.raised,
                      mem |-> r.mem]
    /\ UNCHANGED <<pending, chunks>>

\* RemoveEntity with a save that goes as `outcome` says
RemoveEntityOnFile(node_id, outcome) ==
    /\ LET r == RemoveNodeOnFile(graph, node_id, outcome)
       IN /\ graph' = r.file
          /\ last' = [op |-> "remove", arg |-> <<node_id, outcome>>, ret |-> r.ret,
                      saved |-> r.mem # LoadGraph(graph).G, raised |-> r.raised,
                      mem |-> r.mem]
    /\ UNCHANGED <<pending, chunks>>

\* The file is damaged from outside the program (disk fault, hand edit).
DamageSnapshot ==
    /\ IsSnapshot(graph)
    /\ graph' = CorruptFile
    /\ last' = [op |-> "damage", arg |-> << >>, ret |-> FALSE, saved |-> FALSE,
                raised |-> FALSE, mem |-> EmptyGraph]
    /\ UNCHANGED <<pending, chunks>>

\* A fourth entity, for graphs with a path of three edges.
Ding == <<"ding">>

\* The batches that build the graphs the context queries run on: a path
\* jia - yi - bing - ding, and single edges.
ContextBatches ==
    {<<<<Jia, SuDi, Yi>>, <<Yi, FuQin, Bing>>, <<Bing, WeiYu, Ding>>>>,
     <<<<Jia, SuDi, Yi>>, <<Yi, FuQin, Bing>>>>,
     <<<<Jia, SuDi, Yi>>>>, <<<<Bing, WeiYu, Ding>>>>, <<<<Yi, FuQin, Jia>>>>}

\* The entity lists of the context queries, with a name no graph holds.
ContextEntityLists ==
    {<<Jia, Ding>>, <<Jia>>, <<Yi, Jia>>, <<Ding, <<"wu">>>>, <<<<"wu">>>>, << >>}

\* Candidate lists for the conflict detectors: sources inside and outside the
\* graph, attribute and other relations, and an item that is not a 3-tuple.
ContextCandidateLists ==
    {<<<<Jia, WeiYu, Bing>>>>, <<<<<<"wu">>, ShenFenShi, Jia>>>>, <<<<<<"wu">>, SuDi, Jia>>>>,
     <<<<Yi, FuQin, Jia>>>>, <<<<Bing, WeiYu, Jia>>, <<Jia, SuDi>>>>, <<<<Jia, SuDi, <<"wu">>>>>>}

\* DetectConflicts as the views call it: graph_store_manager.detect_triplet_conflicts
DetectConflictsManager(new_triplets) ==
    /\ LET r == ManagerDetectTripletConflicts(graph, new_triplets)
       IN last' = [op |-> "conflicts_manager", arg |-> new_triplets, ret |-> r.conflicts,
                   saved |-> FALSE, raised |-> r.raised]
    /\ UNCHANGED <<graph, pending, chunks>>

\* DetectCommunities: detect_communities
Communities(outcome) ==
    /\ last' = [op |-> "communities", arg |-> outcome,
                ret |-> DetectCommunities(graph, outcome), saved |-> FALSE]
    /\ UNCHANGED <<graph, pending, chunks>>

\* The writes two callers issue at the same time.
UpsertRequest(triplets) == [kind |-> "upsert", triplets |-> triplets]
RemoveRequest(node_id) == [kind |-> "remove", node_id |-> node_id]

ConcurrentRequests ==
    {UpsertRequest(<<<<Jia, SuDi, Yi>>>>), UpsertRequest(<<<<Yi, WeiYu, Bing>>>>),
     RemoveRequest(Yi)}

\* What a write computes from the graph it loaded: the graph in memory and
\* whether it calls save_graph.
Written(G, request) ==
    IF request.kind = "upsert"
      THEN LET r == UpdateGraphFromTriplets(G, request.triplets)
           IN [G |-> r.G, saved |-> r.saved]
      ELSE LET r == RemoveNode(G, request.node_id)
           IN [G |-> r.disk, saved |-> r.saved]

\* The persisted graph after the write runs on its own against G.
Alone(G, request) == IF Written(G, request).saved THEN Written(G, request).G ELSE G

\* A caller enters update_graph_from_triplets or remove_node and loads the
\* graph (its first statement); `start` is the persisted graph before any of
\* the overlapping calls began.
BeginCall(c, request) ==
    /\ calls[c].pc = "idle"
    /\ calls' = [calls EXCEPT ![c] =
                   [pc |-> "loaded", request |-> request, G |-> graph,
                    start |-> IF \E d \in Callers : calls[d].pc # "idle"
                                THEN calls[CHOOSE d \in Callers : calls[d].pc # "idle"].start
                                ELSE graph]]
    /\ last' = [op |-> "begin", arg |-> <<c, request>>, ret |-> FALSE, saved |-> FALSE]
    /\ UNCHANGED <<graph, pending, chunks, ops>>

\* The caller works on the graph it loaded and saves it when it changed it.
EndCall(c) ==
    /\ calls[c].pc = "loaded"
    /\ LET w == Written(calls[c].G, calls[c].request)
       IN /\ graph' = IF w.saved THEN w.G ELSE graph
          /\ last' = [op |-> "end", arg |-> <<c, calls[c].request>>, ret |-> w.saved,
                      saved |-> w.saved]
    /\ calls' = [calls EXCEPT ![c].pc = "done"]
    /\ UNCHANGED <<pending, chunks, ops>>

\* A write that runs before the callers overlap.
SetupWrite(triplets) ==
    /\ \A c \in Callers : calls[c].pc = "idle"
    /\ UpsertRelations(triplets)

\* ------------------------------------------------------------------ drafting
\* The literal verdict of a chapter with no conflict.
Pass == <<"PASS">>

\* What the judge chain does when it is invoked: it raises, or it answers.
RaisesJudge == [kind |-> "raises"]
JudgeSays(text) == [kind |-> "says", text |-> text]
JudgeOutcomes ==
    {RaisesJudge, JudgeSays(Pass), JudgeSays(<<Space, "PASS", Space>>),
     JudgeSays(<<"conflict">>), JudgeSays(Blank)}

\* run_consistency_check with the two early returns removed.
RunConsistencyCheckAlwaysJudge(G, text, judge) ==
    [verdict |-> IF judge.kind = "raises" THEN Pass ELSE Strip(judge.text),
     judged |-> TRUE]

\* KnowledgeService.run_consistency_check(collection_name, text): the verdict
\* and whether the judge chain was invoked.
RunConsistencyCheck(G, text, judge) ==
    LET mentioned == MentionedEntities(G, text)
        graph_facts == GetMultiHopContext(G, mentioned, 2)
    IN IF mentioned = << >> THEN [verdict |-> Pass, judged |-> FALSE]
       ELSE IF graph_facts = << >> THEN [verdict |-> Pass, judged |-> FALSE]
       ELSE IF judge.kind = "raises" THEN [verdict |-> Pass, judged |-> TRUE]
       ELSE [verdict |-> Strip(judge.text), judged |-> TRUE]

\* What _index_chapter_summary meets: everything works, add_texts fails (logged
\* inside index_text), or the summary chain or the collection raises.
SummaryOutcomes == {"ok", "add_fails", "raises"}

\* WritingService.generate_draft(state, ...): the index after the call, what
\* it returns and whether it raised.
GenerateDraftResult(G, index, new_content, drafting_index, refinement, summary, judge) ==
    IF new_content # Blank /\ ~refinement
      THEN IF summary = "raises"
             THEN [index |-> index, raised |-> TRUE, judged |-> FALSE,
                   ret |-> [error |-> "VectorStoreOperationError"]]
             ELSE LET summary_text == SummaryText(drafting_index + 1)
                      indexed == IndexText(index, summary_text,
                                           ChapterSummaryChunk(NewId(index, summary_text),
                                                               summary_text, drafting_index + 1),
                                           summary = "ok")
                      audit_result == RunConsistencyCheck(G, new_content, judge)
                  IN [index |-> indexed, raised |-> FALSE, judged |-> audit_result.judged,
                      ret |-> IF audit_result.verdict # Pass
                                THEN [new_draft_content |-> new_content,
                                      consistency_warning |-> audit_result.verdict]
                                ELSE [new_draft_content |-> new_content]]
      ELSE [index |-> index, raised |-> FALSE, judged |-> FALSE,
            ret |-> [new_draft_content |-> new_content]]

\* The chapters drafted: one that names jia and yi, one that names bing, and
\* an empty answer of the writer chain.
DraftTexts == {<<"jia", "yi">>, <<"bing">>, Blank}

\* CheckConsistency: KnowledgeService.run_consistency_check
CheckConsistency(text, judge) ==
    /\ LET r == RunConsistencyCheck(graph, text, judge)
       IN last' = [op |-> "check", arg |-> <<text, judge>>, ret |-> r.verdict,
                   saved |-> FALSE, judged |-> r.judged, raised |-> FALSE]
    /\ UNCHANGED <<graph, pending, chunks>>

\* The draft step: WritingService.generate_draft
GenerateDraft(new_content, drafting_index, refinement, summary, judge) ==
    /\ LET r == GenerateDraftResult(graph, chunks, new_content, drafting_index,
                                    refinement, summary, judge)
       IN /\ chunks' = r.index
          /\ last' = [op |-> "draft",
                      arg |-> <<new_content, judge, refinement, summary>>,
                      ret |-> r.ret, saved |-> FALSE, judged |-> r.judged,
                      raised |-> r.raised]
    /\ UNCHANGED <<graph, pending>>

\* ------------------------------------------------------------------ external calls
\* An operation that waits on external calls (vector search with its
\* embedding, query rewrite, judge, web search): `pc` is the call it waits
\* on, "join" once every call has answered, "idle" when none is running.
NoOperation ==
    [op |-> "none", pc |-> "idle", arg |-> << >>, env |-> AllOk, judge |-> RaisesJudge,
     tasks |-> << >>, all_results_text |-> << >>, issued |-> << >>]

InitExternal ==
    /\ calls = NoOperation
    /\ graph = EmptyGraph
    /\ pending = << >>
    /\ chunks = {}
    /\ last = [op |-> "init", arg |-> << >>, ret |-> << >>, saved |-> FALSE]
    /\ ops = 0

\* A retrieval that runs the weak-memory tier for every chapter.
NextRetrievalCallAlwaysWeak(pc, outcome, current_idx) ==
    CASE pc = "strong" -> "weak_rewrite"
      [] pc = "weak_rewrite" -> IF outcome = "raises" THEN "bible_rewrite" ELSE "weak"
      [] pc = "weak" -> "bible_rewrite"
      [] pc = "bible_rewrite" -> IF outcome = "raises" THEN "join" ELSE "bible"
      [] pc = "bible" -> "join"

\* The external call retrieve_for_draft issues after the one at `pc` answered
\* as `outcome`: a rewrite that raises skips the search of its tier.
NextRetrievalCall(pc, outcome, current_idx) ==
    CASE pc = "strong" -> IF current_idx > 3 THEN "weak_rewrite" ELSE "bible_rewrite"
      [] pc = "weak_rewrite" -> IF outcome = "raises" THEN "bible_rewrite" ELSE "weak"
      [] pc = "weak" -> "bible_rewrite"
      [] pc = "bible_rewrite" -> IF outcome = "raises" THEN "join" ELSE "bible"
      [] pc = "bible" -> "join"

\* retrieve_for_draft is entered; the graph tier needs no external call, so
\* the first call awaited is the strong-memory search.
StartRetrieve(section_to_write, drafting_index) ==
    /\ calls.pc = "idle"
    /\ calls' = [NoOperation EXCEPT !.op = "retrieve", !.pc = "strong",
                                    !.arg = <<section_to_write, drafting_index>>,
                                    !.issued = <<"strong">>]
    /\ UNCHANGED <<graph, pending, chunks, last>>

\* The external call the retrieval waits on answers or raises.
AnswerRetrieve(outcome) ==
    /\ calls.op = "retrieve"
    /\ calls.pc \notin {"idle", "join"}
    /\ LET next == NextRetrievalCall(calls.pc, outcome, calls.arg[2] + 1)
       IN calls' = [calls EXCEPT !.env = [calls.env EXCEPT ![calls.pc] = outcome],
                                 !.pc = next,
                                 !.issued = IF next = "join" THEN @ ELSE Append(@, next)]
    /\ UNCHANGED <<graph, pending, chunks, last, ops>>

\* retrieve_for_draft returns all_context_docs.
ReturnRetrieve ==
    /\ calls.op = "retrieve"
    /\ calls.pc = "join"
    /\ last' = [op |-> "retrieve", arg |-> <<calls.arg[1], calls.arg[2], calls.env>>,
                ret |-> RetrieveForDraft(graph, chunks, calls.arg[1], calls.arg[2], calls.env),
                saved |-> FALSE, issued |-> calls.issued]
    /\ calls' = NoOperation
    /\ UNCHANGED <<graph, pending, chunks, ops>>

\* run_consistency_check is entered; it waits on the judge unless it
\* returns early.
StartCheck(text) ==
    /\ calls.pc = "idle"
    /\ calls' = [NoOperation EXCEPT
                   !.op = "check", !.arg = <<text>>,
                   !.pc = IF RunConsistencyCheck(graph, text, RaisesJudge).judged
                            THEN "judge" ELSE "join"]
    /\ UNCHANGED <<graph, pending, chunks, last>>

\* The judge chain answers or raises.
AnswerCheck(judge) ==
    /\ calls.op = "check"
    /\ calls.pc = "judge"
    /\ calls' = [calls EXCEPT !.judge = judge, !.pc = "join"]
    /\ UNCHANGED <<graph, pending, chunks, last, ops>>

\* run_consistency_check returns its verdict.
ReturnCheck ==
    /\ calls.op = "check"
    /\ calls.pc = "join"
    /\ LET r == RunConsistencyCheck(graph, calls.arg[1], calls.judge)
       IN last' = [op |-> "check", arg |-> <<calls.arg[1], calls.judge>>, ret |-> r.verdict,
                   saved |-> FALSE, judged |-> r.judged, raised |-> FALSE]
    /\ calls' = NoOperation
    /\ UNCHANGED <<graph, pending, chunks, ops>>

\* ThreadPoolExecutor(max_workers=5)
max_workers == 5

\* The query the search tool fails on.
BadQuery == "bad"

\* _search_single_query(query): the text of the result, "" when the tool raised.
SearchSingleQuery(query) == IF query = BadQuery THEN Blank ELSE <<"result", query>>

\* A collection step that throws the siblings' results away on a failure.
CollectResultDropAll(all_results_text, res) ==
    IF res # Blank THEN Append(all_results_text, res) ELSE << >>

\* if res: all_results_text.append(res)
CollectResult(all_results_text, res) ==
    IF res # Blank THEN Append(all_results_text, res) ELSE all_results_text

\* The tasks of the fan-out that hold a worker thread.
Running(tasks) == {i \in DOMAIN tasks : tasks[i] = "running"}

\* run_search_and_aggregate(queries) submits one task per query.
StartResearch(queries) ==
    /\ calls.pc = "idle"
    /\ calls' = [NoOperation EXCEPT !.op = "research", !.pc = "fanout", !.arg = queries,
                                    !.tasks = [i \in DOMAIN queries |-> "queued"]]
    /\ UNCHANGED <<graph, pending, chunks, last>>

\* A free worker of the pool takes the oldest queued task and invokes the
\* search tool.
StartTask ==
    /\ calls.pc = "fanout"
    /\ Cardinality(Running(calls.tasks)) < max_workers
    /\ \E i \in DOMAIN calls.tasks :
          /\ calls.tasks[i] = "queued"
          /\ \A j \in DOMAIN calls.tasks : calls.tasks[j] = "queued" => i <= j
          /\ calls' = [calls EXCEPT !.tasks[i] = "running"]
    /\ UNCHANGED <<graph, pending, chunks, last, ops>>

\* The search tool answers task i (or raises); as_completed yields it and
\* the result is collected.
AnswerSearch(i) ==
    /\ calls.pc = "fanout"
    /\ i \in Running(calls.tasks)
    /\ calls' = [calls EXCEPT
                   !.tasks[i] = "done",
                   !.all_results_text = CollectResult(@, SearchSingleQuery(calls.arg[i]))]
    /\ UNCHANGED <<graph, pending, chunks, last, ops>>

\* Every future has completed: the executor shuts down and the joined text
\* is returned.
ReturnResearch ==
    /\ calls.pc = "fanout"
    /\ \A i \in DOMAIN calls.tasks : calls.tasks[i] = "done"
    /\ last' = [op |-> "research", arg |-> calls.arg, ret |-> calls.all_results_text,
                saved |-> FALSE, raised |-> FALSE]
    /\ calls' = NoOperation
    /\ UNCHANGED <<graph, pending, chunks, ops>>

\* The index of a project whose first k chapters have been drafted.
SummaryIndex(k) == {ChapterSummaryChunk(1, SummaryText(i), i) : i \in 1..k}

\* A retrieval starts on a project with some chapters already drafted.
InitTiers ==
    /\ calls = NoOperation
    /\ graph = EmptyGraph
    /\ pending = << >>
    /\ chunks \in {SummaryIndex(k) : k \in 0..MaxSummaries}
    /\ last = [op |-> "init", arg |-> << >>, ret |-> << >>, saved |-> FALSE]
    /\ ops = 0

\* Relation texts approved for one pair: plain ones, one with blanks around
\* it, and two that hold a comma themselves ("su di, fu" and "fu, su di").
LabelTexts ==
    {FuQin, Fu, SuDi, <<Space, "su", "di", Space>>,
     SuDi \o <<",", Space>> \o Fu, Fu \o <<",", Space>> \o SuDi}

LabelBatches ==
    {<<<<s, r, t>>>> : s \in {Jia, Yi}, t \in {Jia, Yi}, r \in LabelTexts}
    \cup {<<<<Jia, Blank, Yi>>>>}

\* The triplets of a batch that update_graph_from_triplets does not skip,
\* as it stores them.
RECURSIVE StoredTriplets(_)
StoredTriplets(triplets) ==
    IF triplets = << >> THEN {}
    ELSE LET triplet == Head(triplets)
         IN (IF Len(triplet) = 3 /\ triplet[1] # Blank /\ triplet[2] # Blank
                  /\ triplet[3] # Blank
               THEN {<<Strip(triplet[1]), Strip(triplet[2]), Strip(triplet[3])>>}
               ELSE {})
            \cup StoredTriplets(Tail(triplets))

\* A run that keeps, in `calls`, every triplet approved so far.
InitLabels ==
    /\ calls = {}
    /\ graph = EmptyGraph
    /\ pending = << >>
    /\ chunks = {}
    /\ last = [op |-> "init", arg |-> << >>, ret |-> FALSE, saved |-> FALSE]
    /\ ops = 0

\* UpsertRelations on approved triplets
UpsertApproved(triplets) ==
    /\ UpsertRelations(triplets)
    /\ calls' = calls \cup StoredTriplets(triplets)

\* The texts a similarity search ranks, nearest first.
SearchResults(n) == [i \in 1..n |-> "d" \o ToString(i)]

\* The re-rankers at hand for n recalled texts: none, or any scoring.
ReRankers(n) == {NoReRanker} \cup {ReRanker(scores) : scores \in [1..n -> 0..MaxScore]}

\* Search followed by Rerank: retrieve_context
SearchAndRerank(n, recall_k, re_ranker, rerank_k) ==
    /\ last' = [op |-> "search",
                arg |-> <<SearchResults(n), recall_k, re_ranker, rerank_k>>,
                ret |-> RetrieveContextReRanked(SearchResults(n), recall_k, re_ranker, rerank_k),
                saved |-> FALSE]
    /\ UNCHANGED <<graph, pending, chunks, calls>>

\* One more operation is started, of at most `bound`.
Begin(bound) == ops < bound /\ ops' = ops + 1

\* One more operation of a run of at most `bound` operations.
Tick(bound) == ops < bound /\ ops' = ops + 1 /\ UNCHANGED calls

\* The last operation of a run of at most `bound` operations.
Finish(bound) == ops < bound /\ ops' = bound /\ UNCHANGED calls

\* The graph store on its own.
Next ==
    \/ \E b \in Batches : Tick(MaxOps) /\ UpsertRelations(b)
    \/ \E n \in NodeIds : Tick(MaxOps) /\ RemoveEntity(n)
    \/ Tick(MaxOps) /\ Stats
    \/ \E es \in EntityLists, radius \in Radii : Tick(MaxOps) /\ MultiHopContext(es, radius)
    \/ \E c \in CandidateLists : Tick(MaxOps) /\ DetectConflicts(c)

Spec == Init /\ [][Next]_vars

\* The review flow: extraction, bible sync, approval, rejection, manual edits.
NextReview ==
    \/ \E text \in Texts, response \in Responses :
            Tick(MaxReviewOps) /\ ExtractRelations(text, response)
    \/ \E content \in Texts, add_ok \in BOOLEAN, response \in Responses :
            Tick(MaxReviewOps) /\ SyncBible(content, add_ok, response)
    \/ Tick(MaxReviewOps) /\ ApproveMerge
    \/ Tick(MaxReviewOps) /\ RejectPending
    \/ \E t \in {<<Jia, WeiYu, Bing>>, <<Jia, Blank, Yi>>} :
            Tick(MaxReviewOps) /\ AddManualEdge(t)
    \/ \E n \in {Jia, Bing} : Tick(MaxReviewOps) /\ RemoveEntity(n)
    \/ Tick(MaxReviewOps) /\ ClearGraph

SpecReview == Init /\ [][NextReview]_vars

\* Retrieval for a chapter over a graph and an index built beforehand; the
\* retrieval reads only, and a run ends with it.
NextRetrieve ==
    \/ \E b \in RetrievalBatches : Tick(MaxRetrieveOps) /\ UpsertRelations(b)
    \/ \E d \in SummaryDraftingIndexes, add_ok \in BOOLEAN :
            Tick(MaxRetrieveOps) /\ IndexChapterSummary(d, SummaryText(d + 1), add_ok)
    \/ \E content \in Texts, add_ok \in BOOLEAN :
            Tick(MaxRetrieveOps) /\ SyncBible(content, add_ok, RaisesResponse)
    \/ \E section \in Sections, d \in DraftingIndexes, env \in Envs :
            Finish(MaxRetrieveOps) /\ RetrieveForChapter(section, d, env)

SpecRetrieve == Init /\ [][NextRetrieve]_vars

\* The graph store over a snapshot file that can be missing or corrupt, with
\* saves that can fail.
NextStorage ==
    \/ Tick(MaxStorageOps) /\ LoadSnapshot
    \/ \E b \in StorageBatches, outcome \in SaveOutcomes :
            Tick(MaxStorageOps) /\ UpsertRelationsOnFile(b, outcome)
    \/ \E n \in StorageNodeIds, outcome \in SaveOutcomes :
            Tick(MaxStorageOps) /\ RemoveEntityOnFile(n, outcome)
    \/ Tick(MaxStorageOps) /\ DamageSnapshot

SpecStorage == InitStorage /\ [][NextStorage]_vars

\* Context queries over graphs of up to four entities.
NextContext ==
    \/ \E b \in ContextBatches : Tick(MaxContextOps) /\ UpsertRelations(b)
    \/ \E es \in ContextEntityLists, radius \in Radii :
            Tick(MaxContextOps) /\ MultiHopContext(es, radius)
    \/ \E n \in StorageNodeIds : Tick(MaxContextOps) /\ RemoveEntity(n)
    \/ \E outcome \in PartitionOutcomes : Tick(MaxContextOps) /\ Communities(outcome)
    \/ \E c \in ContextCandidateLists : Tick(MaxContextOps) /\ DetectConflicts(c)
    \/ \E c \in ContextCandidateLists : Tick(MaxContextOps) /\ DetectConflictsManager(c)

SpecContext == Init /\ [][NextContext]_vars

\* Drafting chapters over a graph that is built and pruned.
NextDraft ==
    \/ \E b \in RetrievalBatches : Tick(MaxDraftOps) /\ UpsertRelations(b)
    \/ \E n \in StorageNodeIds : Tick(MaxDraftOps) /\ RemoveEntity(n)
    \/ \E text \in DraftTexts, judge \in JudgeOutcomes :
            Tick(MaxDraftOps) /\ CheckConsistency(text, judge)
    \/ \E text \in DraftTexts, refinement \in BOOLEAN, summary \in SummaryOutcomes,
          judge \in JudgeOutcomes :
            Tick(MaxDraftOps) /\ GenerateDraft(text, 0, refinement, summary, judge)

SpecDraft == Init /\ [][NextDraft]_vars

\* The world bible is synced again and again, with the same or a new text.
NextBible ==
    \/ \E content \in BibleVersions \cup {Blank}, add_ok \in BOOLEAN,
          response \in {RaisesResponse, ListResponse(<<<<Jia, FuQin, Yi>>>>)} :
            Tick(MaxBibleOps) /\ SyncBible(content, add_ok, response)
    \/ \E d \in {0, 1}, add_ok \in BOOLEAN :
            Tick(MaxBibleOps) /\ IndexChapterSummary(d, SummaryText(d + 1), add_ok)

SpecBible == Init /\ [][NextBible]_vars

\* The query lists of the short fan-outs.
ShortQueryLists == {<< >>, <<"q1">>, <<"q1", BadQuery>>}

\* Operations that wait on external calls, one at a time.
NextBlocking ==
    \/ \E b \in RetrievalBatches :
            calls.pc = "idle" /\ Tick(MaxBlockingOps) /\ UpsertRelations(b)
    \/ \E section \in Sections, d \in {1, 4} :
            Begin(MaxBlockingOps) /\ StartRetrieve(section, d)
    \/ \E outcome \in {"ok", "raises"} : AnswerRetrieve(outcome)
    \/ ReturnRetrieve
    \/ \E text \in Sections : Begin(MaxBlockingOps) /\ StartCheck(text)
    \/ \E judge \in JudgeOutcomes : AnswerCheck(judge)
    \/ ReturnCheck
    \/ \E queries \in ShortQueryLists : Begin(MaxBlockingOps) /\ StartResearch(queries)
    \/ StartTask
    \/ \E i \in 1..2 : AnswerSearch(i)
    \/ ReturnResearch

\* The program's own steps are taken when they can be; nothing obliges an
\* external service to answer, and nothing obliges a user to start anything.
FairBlocking ==
    /\ WF_vars(ReturnRetrieve)
    /\ WF_vars(ReturnCheck)
    /\ WF_vars(ReturnResearch)
    /\ WF_vars(StartTask)

SpecBlocking == InitExternal /\ [][NextBlocking]_vars /\ FairBlocking

\* Query lists longer than the pool, with no, one and two failing queries.
LongQueryLists ==
    {[i \in 1..MaxQueries |-> IF i \in bad THEN BadQuery ELSE "q" \o ToString(i)] :
        bad \in {{}, {2}, {1, MaxQueries}}}

\* One fan-out of the research chain.
NextFanout ==
    \/ \E queries \in LongQueryLists :
            last.op = "init" /\ UNCHANGED ops /\ StartResearch(queries)
    \/ StartTask
    \/ \E i \in 1..MaxQueries : AnswerSearch(i)
    \/ ReturnResearch

SpecFanout == InitExternal /\ [][NextFanout]_vars

\* One retrieval, call by call, for any chapter of the book.
NextTiers ==
    \/ \E section \in Sections, d \in DraftingIndexes :
            last.op = "init" /\ UNCHANGED ops /\ StartRetrieve(section, d)
    \/ \E outcome \in {"ok", "raises"} : AnswerRetrieve(outcome)
    \/ ReturnRetrieve

SpecTiers == InitTiers /\ [][NextTiers]_vars

\* Approved relations accumulate on the edges; nothing is removed.
NextLabels ==
    \/ \E b \in LabelBatches : Begin(MaxLabelOps) /\ UpsertApproved(b)
    \/ Tick(MaxLabelOps) /\ Stats

SpecLabels == InitLabels /\ [][NextLabels]_vars

\* One search with re-ranking, over every input within the bounds.
NextSearch ==
    \E n \in 0..MaxDocs, recall_k \in 1..MaxDocs, rerank_k \in 0..MaxDocs :
        \E re_ranker \in ReRankers(IF n < recall_k THEN n ELSE recall_k) :
            last.op = "init" /\ UNCHANGED ops
                /\ SearchAndRerank(n, recall_k, re_ranker, rerank_k)

SpecSearch == Init /\ [][NextSearch]_vars

\* Triplets between two entities and from an entity to itself.
SimpleBatches ==
    {<<<<s, r, t>>>> : s \in {Jia, Yi}, t \in {Jia, Yi}, r \in {SuDi, FuQin}}
    \cup {<<<<Yi, WeiYu, Bing>>>>}

\* Upserts, removals and statistics on a small graph.
NextSimple ==
    \/ \E b \in SimpleBatches : Tick(MaxSimpleOps) /\ UpsertRelations(b)
    \/ \E n \in StorageNodeIds : Tick(MaxSimpleOps) /\ RemoveEntity(n)
    \/ Tick(MaxSimpleOps) /\ Stats

SpecSimple == Init /\ [][NextSimple]_vars

\* Two callers writing to one project's store with nothing to serialize them.
NextConcurrent ==
    \/ \E b \in RetrievalBatches : Tick(MaxConcurrentSetup) /\ SetupWrite(b)
    \/ \E c \in Callers, request \in ConcurrentRequests : BeginCall(c, request)
    \/ \E c \in Callers : EndCall(c)

SpecConcurrent == Init /\ [][NextConcurrent]_vars

\* ------------------------------------------------------------------ claims
HasReport(reports, type) == \E i \in DOMAIN reports : reports[i].type = type

\* C1: on every reachable graph, upserting a triplet with non-empty fields a
\* second time leaves the graph of the first call unchanged and returns
\* updated = FALSE.
C1_UpsertIdempotent ==
    \A t \in Triplets :
        ValidTriplet(t) =>
            LET once == UpdateGraphFromTriplets(graph, <<t>>)
                twice == UpdateGraphFromTriplets(once.disk, <<t>>)
            IN twice.disk = once.disk /\ twice.updated = FALSE /\ twice.saved = FALSE

\* C1 witness: the same triplet was upserted again and nothing changed.
C1_Witness ==
    /\ last.op = "upsert"
    /\ last.arg = <<<<Jia, SuDi, Yi>>>>
    /\ last.ret = FALSE
    /\ graph = [nodes |-> {Jia, Yi},
                edges |-> {[source |-> Jia, target |-> Yi, relation |-> SuDi]}]

\* C2: at most one edge joins any two entities, whichever endpoint was the
\* source; an upsert about an already-connected pair keeps that one edge and
\* its endpoints, and only its label may change.
C2_OneEdgePerPair ==
    [][ /\ \A e1, e2 \in graph'.edges :
              {e1.source, e1.target} = {e2.source, e2.target} => e1 = e2
        /\ last'.op = "upsert" =>
              \A e \in graph.edges :
                  \E f \in graph'.edges :
                      /\ f.source = e.source /\ f.target = e.target
                      /\ EdgesBetween(graph', e.source, e.target) = {f} ]_vars

\* C2 witness: a pair connected from one endpoint received a further relation
\* from the other endpoint and still has one edge.
C2_Witness ==
    /\ last.op = "upsert"
    /\ last.arg = <<<<Yi, SuDi, Jia>>>>
    /\ graph.edges = {[source |-> Jia, target |-> Yi,
                        relation |-> JoinRelation(FuQin, SuDi)]}

\* C3: with the edge created from (a, fu qin, b) labelled fu qin, the
\* candidate (b, fu qin, a) is reported as a logical reversal and the
\* candidate (b, su di, a) is not reported.
C3_ReversalReported ==
    \A a, b \in Names :
        (a # b /\ [source |-> a, target |-> b, relation |-> FuQin] \in graph.edges) =>
            /\ HasReport(DetectTripletConflicts(graph, <<<<b, FuQin, a>>>>), LogicalReversal)
            /\ DetectTripletConflicts(graph, <<<<b, SuDi, a>>>>) = << >>

\* C4: with the edge between a and x labelled wei yu, a candidate
\* (a, wei yu, y) with y different from x that the graph does not already hold
\* is reported as an attribute conflict, and the candidate (a, wei yu, x) that
\* the graph already holds yields no report.
C4_AttributeExclusive ==
    \A a, x, y \in Names :
        (HasEdge(graph, a, x) /\ RelationOf(graph, a, x) = WeiYu /\ y # x) =>
            /\ ~(HasEdge(graph, a, y) /\ Contains(WeiYu, RelationOf(graph, a, y))) =>
                  HasReport(DetectTripletConflicts(graph, <<<<a, WeiYu, y>>>>), AttributeConflict)
            /\ DetectTripletConflicts(graph, <<<<a, WeiYu, x>>>>) = << >>

\* C4 witness: the detector ran on (jia, wei yu, bing) against a graph holding
\* (jia, wei yu, yi) and reported an attribute conflict.
C4_Witness ==
    /\ last.op = "conflicts"
    /\ last.arg = <<<<Jia, WeiYu, Bing>>>>
    /\ [source |-> Jia, target |-> Yi, relation |-> WeiYu] \in graph.edges
    /\ HasReport(last.ret, AttributeConflict)

\* The tiers of the blocks of a retrieval, in the order returned.
TiersOf(docs) == [i \in DOMAIN docs |-> docs[i].tier]

\* The place of a tier in the order Graph, Strong memory, Weak memory, Bible.
TierRank(tier) ==
    CASE tier = GraphTier -> 1
      [] tier = StrongTier -> 2
      [] tier = WeakTier -> 3
      [] tier = BibleTier -> 4

\* C5: the blocks of every retrieval are in the order Graph, Strong memory,
\* Weak memory, Bible with no tier twice (a subsequence of that order), and a
\* retrieval for chapter 10 in which no call raises and every tier has
\* something to return yields the four blocks in exactly that order.
C5_FixedOrder ==
    last.op = "retrieve" =>
        LET section_to_write == last.arg[1]
            current_idx == last.arg[2] + 1
            env == last.arg[3]
            mentioned == MentionedEntities(graph, section_to_write)
        IN /\ \A i, j \in DOMAIN last.ret :
                 i < j => TierRank(last.ret[i].tier) < TierRank(last.ret[j].tier)
           /\ (/\ current_idx = 10
               /\ env = AllOk
               /\ mentioned # << >>
               /\ GetMultiHopContext(graph, mentioned, 2) # << >>
               /\ \E c \in chunks : StrongFilter(current_idx, c)
               /\ \E c \in chunks : WeakFilter(current_idx, c)
               /\ \E c \in chunks : BibleFilter(c)) =>
                  TiersOf(last.ret) = <<GraphTier, StrongTier, WeakTier, BibleTier>>

\* C5 witness: a retrieval for chapter 10 returned all four blocks.
C5_Witness ==
    /\ last.op = "retrieve"
    /\ last.arg[2] + 1 = 10
    /\ last.arg[3] = AllOk
    /\ TiersOf(last.ret) = <<GraphTier, StrongTier, WeakTier, BibleTier>>
    /\ last.ret[2].body = <<SummaryText(9)>>

\* The tiers in which some call of the retrieval raises.
FailedTiers(env) ==
    (IF env.graph # "ok" THEN {GraphTier} ELSE {})
    \cup (IF env.strong # "ok" THEN {StrongTier} ELSE {})
    \cup (IF env.weak_rewrite # "ok" \/ env.weak # "ok" THEN {WeakTier} ELSE {})
    \cup (IF env.bible_rewrite # "ok" \/ env.bible # "ok" THEN {BibleTier} ELSE {})

\* The blocks of docs that are not of the given tiers.
RECURSIVE WithoutTiers(_, _)
WithoutTiers(docs, tiers) ==
    IF docs = << >> THEN << >>
    ELSE (IF Head(docs).tier \in tiers THEN << >> ELSE <<Head(docs)>>)
         \o WithoutTiers(Tail(docs), tiers)

\* C6: a retrieval in which exactly one tier fails returns no block of that
\* tier and, of every other tier, the block the retrieval returns when no
\* call raises.
C6_TierIsolation ==
    last.op = "retrieve" =>
        LET env == last.arg[3]
            failed == FailedTiers(env)
            unfailed == RetrieveForDraft(graph, chunks, last.arg[1], last.arg[2], AllOk)
        IN Cardinality(failed) = 1 => last.ret = WithoutTiers(unfailed, failed)

\* C7: extraction (update_graph, or the one a bible sync triggers) leaves the
\* graph as it is and only appends extracted items to the pending list; the
\* graph changes only by an approval, a manual edge, a removal or a clearing,
\* and an approval that changes it upserts the reviewed pending rows.
C7_NeverAutoMerged ==
    [][ /\ last'.op \in {"update_graph", "sync_bible"} =>
              /\ graph' = graph
              /\ Len(pending') >= Len(pending)
              /\ SubSeq(pending', 1, Len(pending)) = pending
              /\ \A i \in DOMAIN pending' :
                    i > Len(pending) => InSeq(pending'[i], last'.arg[2].items)
        /\ graph' # graph => last'.op \in {"approve", "manual", "remove", "clear"}
        /\ (last'.op = "approve" /\ graph' # graph) =>
              /\ pending # << >>
              /\ last'.arg = ReviewRows(pending)
              /\ graph' = UpdateGraphFromTriplets(graph, ReviewRows(pending)).disk ]_vars

\* C7 witness: a bible sync extracted a relation, which is pending while the
\* graph is still empty.
C7_Witness ==
    /\ last.op = "sync_bible"
    /\ last.arg[2] = ListResponse(<<<<Jia, FuQin, Yi>>>>)
    /\ pending = <<<<Jia, FuQin, Yi>>>>
    /\ graph = EmptyGraph

HasLine(lines, pair, text) ==
    \E i \in DOMAIN lines : lines[i].pair = pair /\ Contains(text, lines[i].relation)

\* C8: on every reachable graph, after upserting (a, su di, b) the multi-hop
\* context of radius 1 around a alone and around b alone each has a line for
\* the pair {a, b} whose relation is the edge's label and carries su di.
C8_SymmetricLookup ==
    \A a, b \in Names :
        a # b =>
            LET G2 == UpdateGraphFromTriplets(graph, <<<<a, SuDi, b>>>>).disk
            IN \A start \in {a, b} :
                 LET lines == GetMultiHopContext(G2, <<start>>, 1)
                 IN /\ HasLine(lines, {a, b}, SuDi)
                    /\ \A i \in DOMAIN lines :
                          lines[i].pair = {a, b} => lines[i].relation = RelationOf(G2, a, b)

\* C8 witness: the edge created from jia was looked up from yi.
C8_Witness ==
    /\ last.op = "multihop"
    /\ last.arg = <<<<Yi>>, 1>>
    /\ [source |-> Jia, target |-> Yi, relation |-> SuDi] \in graph.edges
    /\ last.ret = <<[pair |-> {Jia, Yi}, relation |-> SuDi]>>

\* C9: removing an entity of the graph removes that node and exactly the
\* edges incident to it and returns TRUE; removing an absent entity returns
\* FALSE and changes nothing. From the graph built from (jia, su di, yi),
\* removing yi leaves node_count = 1 and edge_count = 0.
C9_RemoveEntity ==
    [][ last'.op = "remove" =>
          LET name == last'.arg
          IN /\ name \in graph.nodes =>
                  /\ last'.ret = TRUE
                  /\ graph'.nodes = graph.nodes \ {name}
                  /\ graph'.edges = {e \in graph.edges : name \notin {e.source, e.target}}
             /\ name \notin graph.nodes => (last'.ret = FALSE /\ graph' = graph)
             /\ (/\ graph = UpdateGraphFromTriplets(EmptyGraph, <<<<Jia, SuDi, Yi>>>>).disk
                 /\ name = Yi) =>
                  /\ GetGraphStats(graph').edge_count = 0
                  /\ GetGraphStats(graph').node_count = 1 ]_vars

\* C9 witness: yi was removed from the graph built from (jia, su di, yi).
C9_Witness ==
    /\ last.op = "remove"
    /\ last.arg = Yi
    /\ last.ret = TRUE
    /\ graph = [nodes |-> {Jia}, edges |-> {}]

\* The normalised fields of a valid triplet.
Src(t) == Strip(t[1])
Rel(t) == Strip(t[2])
Dst(t) == Strip(t[3])

\* C10: an upsert returns TRUE exactly when the batch changed the graph and
\* calls save_graph exactly then; nodes and edges are never lost and labels
\* only grow; every valid triplet leaves both entities and an edge between
\* them whose label contains the relation text. For a batch of one valid
\* triplet: the edge is created with that text if the pair was unconnected,
\* otherwise the text is appended after ", " exactly when it is not a
\* substring of the label, and nothing else changes.
C10_UpsertContract ==
    [][ last'.op = "upsert" =>
          LET batch == last'.arg
          IN /\ last'.ret = (graph' # graph)
             /\ last'.saved = last'.ret
             /\ graph.nodes \subseteq graph'.nodes
             /\ \A e \in graph.edges :
                   \E f \in graph'.edges :
                       /\ f.source = e.source /\ f.target = e.target
                       /\ Contains(e.relation, f.relation)
             /\ \A i \in DOMAIN batch :
                   ValidTriplet(batch[i]) =>
                       /\ {Src(batch[i]), Dst(batch[i])} \subseteq graph'.nodes
                       /\ HasEdge(graph', Src(batch[i]), Dst(batch[i]))
                       /\ Contains(Rel(batch[i]),
                                   RelationOf(graph', Src(batch[i]), Dst(batch[i])))
             /\ (Len(batch) = 1 /\ ValidTriplet(batch[1])) =>
                   LET s == Src(batch[1])
                       r == Rel(batch[1])
                       t == Dst(batch[1])
                   IN /\ graph'.nodes = graph.nodes \cup {s, t}
                      /\ ~HasEdge(graph, s, t) =>
                            graph'.edges = graph.edges
                                \cup {[source |-> s, target |-> t, relation |-> r]}
                      /\ (HasEdge(graph, s, t) /\ Contains(r, RelationOf(graph, s, t))) =>
                            graph'.edges = graph.edges
                      /\ (HasEdge(graph, s, t) /\ ~Contains(r, RelationOf(graph, s, t))) =>
                            LET old == CHOOSE e \in EdgesBetween(graph, s, t) : TRUE
                            IN graph'.edges = (graph.edges \ {old}) \cup
                                 {[old EXCEPT !.relation =
                                      IF old.relation = Blank THEN r
                                      ELSE old.relation \o <<",", Space>> \o r]} ]_vars

\* C10 witness: a relation text was appended to an existing label, and the
\* upsert returned TRUE and saved.
C10_Witness ==
    /\ last.op = "upsert"
    /\ last.arg = <<<<Jia, SuDi, Yi>>>>
    /\ last.ret = TRUE /\ last.saved = TRUE
    /\ graph.edges = {[source |-> Jia, target |-> Yi,
                        relation |-> JoinRelation(FuQin, SuDi)]}

\* A 3-tuple with an empty source, relation or target.
HasEmptyField(t) == Len(t) = 3 /\ (t[1] = Blank \/ t[2] = Blank \/ t[3] = Blank)

NoEmptyField(t) == ~HasEmptyField(t)

\* C11: in every upsert, the triplets with an empty source, relation or
\* target count for nothing: the graph saved and the value returned are those
\* of the batch without them, no entity with the empty name appears on
\* account of them, and a batch of such triplets only changes nothing and
\* returns FALSE.
C11_EmptyFieldSkipped ==
    [][ last'.op = "upsert" =>
          LET batch == last'.arg
              rest == SelectSeq(batch, NoEmptyField)
              r == UpdateGraphFromTriplets(graph, rest)
          IN /\ graph' = r.disk
             /\ last'.ret = r.updated
             /\ rest = << >> => (graph' = graph /\ last'.ret = FALSE)
             /\ (\A i \in DOMAIN rest : rest[i] \in CleanTriplets) =>
                   graph'.nodes \subseteq graph.nodes \cup Names ]_vars

\* C11 witness: a batch of a triplet with an empty relation followed by a
\* well-formed one was upserted; only the second took effect.
C11_Witness ==
    /\ last.op = "upsert"
    /\ last.arg = <<<<Jia, Blank, Yi>>, <<Yi, WeiYu, Bing>>>>
    /\ last.ret = TRUE
    /\ graph = [nodes |-> {Yi, Bing},
                edges |-> {[source |-> Yi, target |-> Bing, relation |-> WeiYu]}]

\* C12: a load with no snapshot file returns the empty graph and does not
\* fail, and a load of a snapshot file that does not parse fails instead of
\* returning a graph.
C12_LoadGraphContract ==
    last.op = "load" =>
        /\ graph = MissingFile => (last.ret = EmptyGraph /\ ~last.raised)
        /\ graph = CorruptFile => last.raised

\* C13: an upsert that reports updated = TRUE without raising has left its
\* changed graph in the snapshot file.
C13_SaveFailureReported ==
    [][ (last'.op = "upsert" /\ last'.ret = TRUE /\ ~last'.raised) =>
            graph' = last'.mem ]_vars

\* C14: after every call that saves, whether or not the write failed, a load
\* returns the graph a load returned before the call or the graph the call
\* was saving.
C14_AtomicOverwrite ==
    [][ last'.op \in {"upsert", "remove"} =>
            LoadGraph(graph').G \in {LoadGraph(graph).G, last'.mem} ]_vars

\* C15: when the overlapping writes of the two callers have all returned, the
\* persisted graph is the one left by running the two writes one after the
\* other, in one order or the other, from the graph persisted before them.
C15_WritesSerialized ==
    (\A c \in Callers : calls[c].pc = "done") =>
        LET start == calls["a"].start
            ra == calls["a"].request
            rb == calls["b"].request
        IN graph \in {Alone(Alone(start, ra), rb), Alone(Alone(start, rb), ra)}

\* The given entities that are nodes of G.
PresentEntities(G, entities) == {entities[i] : i \in DOMAIN entities} \cap G.nodes

\* The nodes within radius hops of some given entity of G.
EgoNodes(G, entities, radius) ==
    UNION {Within(G, {e}, radius) : e \in PresentEntities(G, entities)}

\* The edges of the subgraph of G induced by a set of nodes.
InducedEdges(G, ns) == {e \in G.edges : e.source \in ns /\ e.target \in ns}

\* C16: a multi-hop context has one line for each edge of the subgraph
\* induced by the nodes within radius hops of a given entity of the graph and
\* no other line, no pair on two lines, and no line at all when no given
\* entity is in the graph.
C16_InducedEdgesRendered ==
    last.op = "multihop" =>
        LET entities == last.arg[1]
            radius == last.arg[2]
            lines == last.ret
            induced == InducedEdges(graph, EgoNodes(graph, entities, radius))
        IN /\ {lines[i].pair : i \in DOMAIN lines} = {{e.source, e.target} : e \in induced}
           /\ \A i, j \in DOMAIN lines : lines[i].pair = lines[j].pair => i = j
           /\ \A i \in DOMAIN lines :
                 lines[i].relation = RelationOf(graph, CHOOSE a \in lines[i].pair : TRUE,
                                                CHOOSE b \in lines[i].pair :
                                                   lines[i].pair = {b, CHOOSE a \in lines[i].pair : TRUE})
           /\ PresentEntities(graph, entities) = {} => lines = << >>

\* C17: the communities of a graph with fewer than two nodes or with no edge
\* are the empty mapping.
C17_NoCommunitiesWithoutEdges ==
    last.op = "communities" =>
        ((Cardinality(graph.nodes) < 2 \/ graph.edges = {}) => last.ret = {})

\* A candidate no rule of the detector applies to: not a 3-tuple, or with no
\* asymmetric keyword and no attribute keyword in its relation.
MatchesNoRule(triplet) ==
    \/ Len(triplet) # 3
    \/ /\ ~HasAsymmetricKeyword(triplet[2])
       /\ ~Contains(WeiYu, triplet[2])
       /\ ~Contains(ShenFenShi, triplet[2])

\* C18: a conflict detection never raises, whatever the graph and the
\* candidates, and reports nothing about a candidate that matches no rule.
C18_DetectNeverRaises ==
    /\ last.op = "conflicts_manager" => ~last.raised
    /\ last.op \in {"conflicts", "conflicts_manager"} =>
          \A i \in DOMAIN last.ret :
              \A j \in DOMAIN last.arg :
                  MatchesNoRule(last.arg[j]) => last.ret[i].triplet # last.arg[j]

\* The entities of the graph the text names have no neighbour at all, so
\* their neighbourhood of any radius holds no relation.
NeighbourhoodEmpty(G, text) ==
    \A node \in G.nodes :
        Contains(Lower(node), Lower(text)) => Neighbors(G, node) = {}

\* C19: CheckConsistency answers PASS without invoking the judge when the
\* text names no entity or the named entities have no relations; and a draft
\* step that got a verdict returns the new content whatever the verdict,
\* carrying a verdict other than PASS only as a warning.
C19_CheckNeverBlocks ==
    /\ (last.op = "check" /\ NeighbourhoodEmpty(graph, last.arg[1])) =>
          (last.ret = Pass /\ ~last.judged)
    /\ (last.op = "draft" /\ NeighbourhoodEmpty(graph, last.arg[1])) => ~last.judged
    /\ (last.op = "draft" /\ ~last.raised) =>
          /\ last.ret.new_draft_content = last.arg[1]
          /\ "consistency_warning" \in DOMAIN last.ret =>
                /\ last.judged
                /\ last.arg[2].kind = "says"
                /\ last.ret.consistency_warning = Strip(last.arg[2].text)
                /\ last.ret.consistency_warning # Pass
    /\ (last.op = "draft" /\ last.raised) => last.arg[4] = "raises"

\* A chapter naming an entity that has no relation left is drafted with a
\* judge that would have objected: the judge is not invoked and the content
\* comes back without a warning.
C19_Witness ==
    /\ last.op = "draft"
    /\ last.arg[1] = <<"jia", "yi">>
    /\ last.arg[2] = JudgeSays(<<"conflict">>)
    /\ ~last.arg[3]
    /\ graph.nodes = {Jia}
    /\ ~last.judged
    /\ last.ret = [new_draft_content |-> <<"jia", "yi">>]

\* C20: an extraction whose chain raises, gives unparseable output or gives
\* something that is not a list returns graph_updated = FALSE and leaves the
\* pending list and the graph as they were.
C20_BadResponseYieldsNothing ==
    [][(last'.op = "update_graph" /\ last'.arg[2].kind # "list") =>
          /\ last'.ret = FALSE
          /\ pending' = pending
          /\ graph' = graph]_vars

\* A JSON object came back for a non-empty text while triplets were pending.
C20_Witness ==
    /\ last.op = "update_graph"
    /\ last.arg = <<BibleText, DictResponse>>
    /\ last.ret = FALSE
    /\ pending = <<<<Jia, FuQin, Yi>>>>

\* C21: once a sync has indexed a version of the world bible, the index
\* holds no world-bible chunk of any other version.
C21_OnlyLatestBible ==
    (/\ last.op = "sync_bible"
     /\ \E c \in chunks : BibleFilter(c) /\ c.text = last.arg[1]) =>
        \A c \in chunks : BibleFilter(c) => c.text = last.arg[1]

\* C22: an operation that has been entered eventually returns, whether or
\* not the external call it waits on ever answers.
C22_NoIndefiniteBlocking == (calls.pc # "idle") ~> (calls.pc = "idle")

\* C23: the fan-out never has more than five searches in progress, and it
\* returns, without raising, an aggregate that holds the result of every
\* query whose search succeeded, whatever happened to the other queries.
C23_FanoutBoundedAndIsolated ==
    /\ Cardinality(Running(calls.tasks)) <= 5
    /\ last.op = "research" =>
          /\ ~last.raised
          /\ \A i \in DOMAIN last.arg :
                last.arg[i] # BadQuery => InSeq(<<"result", last.arg[i]>>, last.ret)

\* A fan-out of more queries than workers, two of them failing, returned
\* the results of all the others.
C23_Witness ==
    /\ last.op = "research"
    /\ Len(last.arg) > 5
    /\ Cardinality({i \in DOMAIN last.arg : last.arg[i] = BadQuery}) = 2
    /\ Len(last.ret) = Len(last.arg) - 2

\* The body of the block of a tier in the returned documents (empty when
\* the tier returned no block).
BlockOf(docs, tier) ==
    IF \E i \in DOMAIN docs : docs[i].tier = tier
      THEN docs[CHOOSE i \in DOMAIN docs : docs[i].tier = tier].body
      ELSE << >>

\* The chapter summaries of the chapters lo..hi held by the index.
SummariesOf(index, lo, hi) ==
    {c \in index : c.document_type = "chapter_summary" /\ c.chapter_index \in lo..hi}

\* C24: whenever its search does not raise, the strong-memory block of a
\* retrieval for chapter n holds summaries of chapters max(1, n-3) .. n-1
\* only, holds every such summary (up to the five the search keeps), and is
\* the same whatever the section text, the graph and the other tiers do.
C24_StrongByRecency ==
    (last.op = "retrieve" /\ last.arg[3].strong = "ok") =>
        LET current_idx == last.arg[2] + 1
            lo == IF current_idx - 3 > 1 THEN current_idx - 3 ELSE 1
            recent == SummariesOf(chunks, lo, current_idx - 1)
            block == BlockOf(last.ret, StrongTier)
        IN /\ \A i \in DOMAIN block : \E c \in recent : c.text = block[i]
           /\ Cardinality(recent) <= 5 =>
                 /\ \A c \in recent : InSeq(c.text, block)
                 /\ Len(block) = Cardinality(recent)
           /\ \A section \in Sections :
                 BlockOf(RetrieveForDraft(graph, chunks, section, last.arg[2], last.arg[3]),
                         StrongTier) = block

\* A retrieval for chapter 4 whose section names no entity, with the graph
\* tier failing, still returned the summary of chapter 1.
C24_Witness ==
    /\ last.op = "retrieve"
    /\ last.arg[2] + 1 = 4
    /\ last.arg[3] = [AllOk EXCEPT !.graph = "load_raises"]
    /\ BlockOf(last.ret, StrongTier) = <<SummaryText(1)>>

\* C25: a retrieval for chapter n <= 3 issues no weak-memory rewrite or
\* search and returns no weak-memory block; for n > 3 it issues them, and
\* the block holds at most five texts, all of summaries of chapters below
\* n - 3.
C25_WeakOnlyAfterChapterThree ==
    last.op = "retrieve" =>
        LET current_idx == last.arg[2] + 1
            block == BlockOf(last.ret, WeakTier)
        IN /\ current_idx <= 3 =>
                 /\ ~InSeq("weak_rewrite", last.issued)
                 /\ ~InSeq("weak", last.issued)
                 /\ block = << >>
           /\ current_idx > 3 =>
                 /\ InSeq("weak_rewrite", last.issued)
                 /\ last.arg[3].weak_rewrite = "ok" => InSeq("weak", last.issued)
                 /\ Len(block) <= 5
                 /\ \A i \in DOMAIN block :
                       \E c \in SummariesOf(chunks, 1, current_idx - 4) : c.text = block[i]
                 /\ (last.arg[3].weak_rewrite = "ok" /\ last.arg[3].weak = "ok") =>
                       Len(block) = IF Cardinality(SummariesOf(chunks, 1, current_idx - 4)) < 5
                                      THEN Cardinality(SummariesOf(chunks, 1, current_idx - 4))
                                      ELSE 5

\* Nine chapters are drafted and chapter 10 is retrieved for: six earlier
\* summaries are eligible and five come back.
C25_Witness ==
    /\ last.op = "retrieve"
    /\ last.arg[2] + 1 = 10
    /\ Cardinality(SummariesOf(chunks, 1, 6)) = 6
    /\ Len(BlockOf(last.ret, WeakTier)) = 5

\* The items of a label, split at ", ".
RECURSIVE SplitItems(_, _)
SplitItems(label, item) ==
    IF label = << >> THEN <<item>>
    ELSE IF Len(label) >= 2 /\ label[1] = "," /\ label[2] = Space
      THEN <<item>> \o SplitItems(SubSeq(label, 3, Len(label)), << >>)
      ELSE SplitItems(Tail(label), Append(item, Head(label)))

\* Every approved relation text of the pair of an edge occurs in its label.
LabelHoldsApproved ==
    \A e \in graph.edges :
        \A call \in calls :
            {call[1], call[3]} = {e.source, e.target} => Contains(call[2], e.relation)

\* No two items of a label are the same text.
LabelItemsDistinct ==
    \A e \in graph.edges :
        LET items == SplitItems(e.relation, << >>)
        IN \A i, j \in DOMAIN items : i # j => items[i] # items[j]

\* C26: with upserts only, the label of every edge holds every relation
\* text approved for its pair, and no text twice among its comma-separated
\* items.
C26_LabelJoinedDeduplicated == LabelHoldsApproved /\ LabelItemsDistinct

\* The position of a text in a list of distinct texts.
IndexOf(seq, x) == CHOOSE i \in DOMAIN seq : seq[i] = x

C28_SimpleGraph ==
    /\ \A e \in graph.edges : e.source # e.target
    /\ 2 * Cardinality(graph.edges) <= Cardinality(graph.nodes) * (Cardinality(graph.nodes) - 1)
    /\ last.op = "stats" => last.ret.density[1] <= last.ret.density[2]

\* C29: no entity of the graph has the empty name and no edge has the empty
\* label, whatever strings were upserted.
C29_NoEmptyNameOrLabel ==
    /\ Blank \notin graph.nodes
    /\ \A e \in graph.edges : e.relation # Blank

\* C30: in a retrieval for chapter n > 3, every summary of a chapter below n
\* passes exactly one of the strong and weak filters, no summary of chapter
\* n or later passes either, and the two returned blocks share no text.
C30_TiersPartitionHistory ==
    (last.op = "retrieve" /\ last.arg[2] + 1 > 3) =>
        LET current_idx == last.arg[2] + 1
            strong == BlockOf(last.ret, StrongTier)
            weak == BlockOf(last.ret, WeakTier)
        IN /\ \A c \in chunks :
                 c.document_type = "chapter_summary" =>
                     /\ ~(StrongFilter(current_idx, c) /\ WeakFilter(current_idx, c))
                     /\ c.chapter_index \in 1..(current_idx - 1) <=>
                           (StrongFilter(current_idx, c) \/ WeakFilter(current_idx, c))
           /\ \A i \in DOMAIN strong : ~InSeq(strong[i], weak)
           /\ \A i \in DOMAIN strong :
                 \E c \in SummariesOf(chunks, current_idx - 3, current_idx - 1) :
                     c.text = strong[i]
           /\ \A i \in DOMAIN weak :
                 \E c \in SummariesOf(chunks, 1, current_idx - 4) : c.text = weak[i]

\* Chapter 7 is retrieved for on a project of nine drafted chapters:
\* chapters 4..6 come back as strong memory, chapters 1..3 as weak memory,
\* and chapters 7..9 in neither.
C30_Witness ==
    /\ last.op = "retrieve"
    /\ last.arg[2] + 1 = 7
    /\ last.arg[3] = AllOk
    /\ chunks = SummaryIndex(9)
    /\ Len(BlockOf(last.ret, StrongTier)) = 3
    /\ Len(BlockOf(last.ret, WeakTier)) = 3

====
